---- MODULE Spec2Model ----
(***************************************************************************)
(* DocuMind retrieval core: the in-memory vector store (vector_store.py),  *)
(* the file-backed TTL cache (cache.py), the chunker (chunking.py), the    *)
(* query-time context assembly (query_processor.py) and the application    *)
(* facade that composes them (main.py).                                    *)
(*                                                                         *)
(* Texts are sequences of one-character strings, so that slicing, trimming *)
(* and lengths are computed as the code computes them.                     *)
(***************************************************************************)
EXTENDS Integers, Sequences, FiniteSets, TLC

VARIABLES
    documents,      \* VectorStore.documents: the list of VectorDocument
    index_to_id,    \* VectorStore.index_to_id: dict position -> id
    cache_files,    \* the files under cache_dir: <<category, key>> -> file
    cache_dirs,     \* the category directories that exist under cache_dir
    ttl,            \* CacheManager.ttl
    now,            \* time.time()
    last_set,       \* history: the latest set call of each fixed-category entry
    get_call,       \* CacheManager.get under way in one thread: its position
    set_call,       \* CacheManager.set under way in another thread: its position
    chunk_size,     \* DocumentChunker.chunk_size
    chunk_overlap,  \* DocumentChunker.chunk_overlap
    ck_text,        \* chunk_by_tokens: the text argument
    ck_start,       \* chunk_by_tokens: the local start
    ck_chunks,      \* chunk_by_tokens: the local chunks
    ck_windows,     \* history: the <<start, end>> of every iteration so far
    ck_pc,          \* chunk_by_tokens: "call", "loop" or "done"
    use_cache,      \* DocuMind.use_cache
    app_pc,         \* DocuMind: "idle", or "ingest" inside process_pdf's loop
    file_path,      \* process_pdf: the file_path argument
    pdf_chunks,     \* process_pdf: the local chunks
    chunk_i,        \* process_pdf: how many chunks the loop has handled
    ret             \* what the latest call returned (or raised), with its arguments

vsVars == <<documents, index_to_id>>
cacheVars == <<cache_files, cache_dirs, ttl, now, last_set, get_call, set_call>>
chunkVars == <<chunk_size, chunk_overlap, ck_text, ck_start, ck_chunks,
               ck_windows, ck_pc>>
appVars == <<use_cache, app_pc, file_path, pdf_chunks, chunk_i>>
vars == <<documents, index_to_id, cache_files, cache_dirs, ttl, now, last_set,
          get_call, set_call, chunk_size, chunk_overlap, ck_text, ck_start, ck_chunks, ck_windows,
          ck_pc, use_cache, app_pc, file_path, pdf_chunks, chunk_i, ret>>

----------------------------------------------------------------------------
(* Bounds of the model. *)

MaxDocs == 2
MaxCtxLen == 3
MaxTime == 2
MaxTtl == 1
MaxShortLen == 4
MaxTextLen == 8
MaxChunkSize == 7
MaxItems == 1
MaxParagraphs == 3
MaxResults == 2

(* VectorStore.dimension, set by the constructor. *)
dimension == 2

----------------------------------------------------------------------------
(* Input domains. *)

DocIds == {"a", "b"}
Contents == {<<"x">>, <<"y", "z">>}
\* embeddings of the store's dimension (the zero vector has no direction)
Vectors == {<<1, 0>>, <<0, 1>>, <<1, 1>>}
QueryVectors == Vectors \cup {<<0, 0>>}
\* embeddings of another dimension
WrongVectors == {<<1>>, <<1, 0, 0>>}
\* thresholds as fractions <<numerator, denominator>> of the cosine;
\* 7/10 is process_query's default, 0 is search's default
Thresholds == {<<0, 1>>, <<7, 10>>}

\* the top_k arguments tried: up to one more than the store can hold
MaxTopK == MaxDocs + 1

Min(a, b) == IF a <= b THEN a ELSE b
Max(a, b) == IF a >= b THEN a ELSE b

\* Optional[...]: None is the miss or the absent entry
None == [some |-> FALSE]
Some(v) == [some |-> TRUE, value |-> v]

----------------------------------------------------------------------------
(* VectorStore *)

RECURSIVE DotFrom(_, _, _)
DotFrom(a, b, i) ==
    IF i > Len(a) THEN 0 ELSE a[i] * b[i] + DotFrom(a, b, i + 1)

\* np.dot(a, b)
Dot(a, b) == DotFrom(a, b, 1)

\* np.linalg.norm(a) squared
Norm2(a) == Dot(a, a)

NaN == <<0, 0>>

\* cosine_similarity: dot(a,b) / (|a| * |b|).  The quotient is kept exactly,
\* as the fraction sign(dot) * dot^2 / (|a|^2 * |b|^2): x |-> sign(x) * x^2 is
\* strictly increasing, so order and ties of the cosines are those of the
\* fractions.  A zero norm makes numpy divide 0.0 by 0.0, which yields nan.
cosine_similarity(a, b) ==
    LET d == Dot(a, b)
        n == Norm2(a) * Norm2(b)
    IN  IF n = 0 THEN NaN
        ELSE <<(IF d < 0 THEN -(d * d) ELSE d * d), n>>

IsNaN(s) == s[2] = 0

\* a threshold t = tn/td as a fraction on the same scale
ThresholdKey(t) == <<(IF t[1] < 0 THEN -(t[1] * t[1]) ELSE t[1] * t[1]), t[2] * t[2]>>

\* float comparisons; every comparison with nan is false
SimGE(s, t) == ~IsNaN(s) /\ ~IsNaN(t) /\ s[1] * t[2] >= t[1] * s[2]
SimGT(s, t) == ~IsNaN(s) /\ ~IsNaN(t) /\ s[1] * t[2] > t[1] * s[2]
SimEQ(s, t) == ~IsNaN(s) /\ ~IsNaN(t) /\ s[1] * t[2] = t[1] * s[2]

\* `if similarity >= threshold` of search
PassesThreshold(s, th) == SimGE(s, ThresholdKey(th))

\* the loop of search: (doc, similarity) pairs in store order; pos is the
\* 1-based position of the document object in self.documents
RECURSIVE Similarities(_, _, _, _)
Similarities(docs, q, th, i) ==
    IF i > Len(docs) THEN <<>>
    ELSE LET s == cosine_similarity(q, docs[i].embedding)
             rest == Similarities(docs, q, th, i + 1)
         IN  IF PassesThreshold(s, th)
             THEN <<[pos |-> i, id |-> docs[i].id, content |-> docs[i].content,
                     score |-> s]>> \o rest
             ELSE rest

\* a sort that is not stable: x goes in front of the elements of equal key
RECURSIVE InsertDescUnstable(_, _)
InsertDescUnstable(sorted, x) ==
    IF sorted = <<>> THEN <<x>>
    ELSE IF SimGE(x.score, Head(sorted).score)
         THEN <<x>> \o sorted
         ELSE <<Head(sorted)>> \o InsertDescUnstable(Tail(sorted), x)

\* where list.sort(key=score, reverse=True) puts x into an already sorted
\* prefix: behind every element whose key is not smaller (the sort is stable,
\* also with reverse=True)
RECURSIVE InsertDesc(_, _)
InsertDesc(sorted, x) ==
    IF sorted = <<>> THEN <<x>>
    ELSE IF SimGT(x.score, Head(sorted).score)
         THEN <<x>> \o sorted
         ELSE <<Head(sorted)>> \o InsertDesc(Tail(sorted), x)

RECURSIVE SortDescFrom(_, _, _)
SortDescFrom(s, i, acc) ==
    IF i > Len(s) THEN acc ELSE SortDescFrom(s, i + 1, InsertDesc(acc, s[i]))

\* similarities.sort(key=lambda x: x[1], reverse=True)
SortDesc(s) == SortDescFrom(s, 1, <<>>)

\* similarities[:top_k] for top_k >= 0
TakeFirst(s, k) == SubSeq(s, 1, Min(k, Len(s)))

\* VectorStore.search
SearchResult(docs, q, top_k, th) ==
    IF Len(docs) = 0 THEN <<>>
    ELSE TakeFirst(SortDesc(Similarities(docs, q, th, 1)), top_k)

\* an add_document that accepts a shorter embedding
DimensionMismatchLonger(embedding) == Len(embedding) > dimension

\* `embedding.shape[0] != self.dimension` of add_document
DimensionMismatch(embedding) == Len(embedding) # dimension

\* an insert that replaces the entries that have the id
AddOutcomeUpsert(docs, doc_id, content, embedding) ==
    [error |-> "none",
     docs |-> Append(SelectSeq(docs, LAMBDA d : d.id # doc_id),
                     [id |-> doc_id, content |-> content,
                      embedding |-> embedding])]

\* an add_document that does nothing when the id is already stored
AddOutcomeSkipExisting(docs, doc_id, content, embedding) ==
    [error |-> "none",
     docs |-> IF \E i \in DOMAIN docs : docs[i].id = doc_id THEN docs
              ELSE Append(docs, [id |-> doc_id, content |-> content,
                                 embedding |-> embedding])]

\* VectorStore.add_document on the list docs: the dimension check raises
\* ValueError and leaves the list alone
AddOutcome(docs, doc_id, content, embedding) ==
    IF DimensionMismatch(embedding)
    THEN [error |-> "ValueError", docs |-> docs]
    ELSE [error |-> "none",
          docs |-> Append(docs, [id |-> doc_id, content |-> content,
                                 embedding |-> embedding])]

\* an add_document that leaves index_to_id alone
IndexAfterAddSkipped(index, n, doc_id) == index

\* self.index_to_id[len(self.documents)] = doc_id, for a list that held n
IndexAfterAdd(index, n, doc_id) ==
    [j \in (DOMAIN index) \cup {n} |-> IF j = n THEN doc_id ELSE index[j]]

AddDocument(doc_id, content, embedding) ==
    LET outcome == AddOutcome(documents, doc_id, content, embedding)
    IN  /\ outcome.error = "none" => Len(documents) < MaxDocs
        /\ documents' = outcome.docs
        /\ index_to_id' = IF outcome.error = "none"
                          THEN IndexAfterAdd(index_to_id, Len(documents), doc_id)
                          ELSE index_to_id
        /\ ret' = [op |-> "add_document", error |-> outcome.error,
                   embedding |-> embedding]

\* the last position holding doc_id, 0 when there is none
RECURSIVE LastIndexOf(_, _, _)
LastIndexOf(docs, doc_id, i) ==
    IF i > Len(docs) THEN 0
    ELSE IF LastIndexOf(docs, doc_id, i + 1) > 0
         THEN LastIndexOf(docs, doc_id, i + 1)
    ELSE IF docs[i].id = doc_id THEN i
    ELSE 0

\* the first position holding doc_id, 0 when there is none
RECURSIVE FirstIndexOf(_, _, _)
FirstIndexOf(docs, doc_id, i) ==
    IF i > Len(docs) THEN 0
    ELSE IF docs[i].id = doc_id THEN i
    ELSE FirstIndexOf(docs, doc_id, i + 1)

\* del self.documents[i]
RemoveAt(s, i) == SubSeq(s, 1, i - 1) \o SubSeq(s, i + 1, Len(s))

\* {j: d.id for j, d in enumerate(self.documents)}
RebuildIndex(docs) == [j \in 0 .. (Len(docs) - 1) |-> docs[j + 1].id]

\* VectorStore.delete
Delete(doc_id) ==
    LET i == FirstIndexOf(documents, doc_id, 1)
    IN  IF i > 0
        THEN /\ documents' = RemoveAt(documents, i)
             /\ index_to_id' = RebuildIndex(RemoveAt(documents, i))
             /\ ret' = [op |-> "delete", error |-> "none", doc_id |-> doc_id,
                        result |-> TRUE]
        ELSE /\ UNCHANGED vsVars
             /\ ret' = [op |-> "delete", error |-> "none", doc_id |-> doc_id,
                        result |-> FALSE]

\* VectorStore.get_by_id
GetById(doc_id) ==
    LET i == FirstIndexOf(documents, doc_id, 1)
    IN  /\ ret' = [op |-> "get_by_id", error |-> "none", doc_id |-> doc_id,
                   result |-> IF i > 0 THEN Some(documents[i]) ELSE None]
        /\ UNCHANGED vsVars

\* VectorStore.clear
Clear ==
    /\ documents' = <<>>
    /\ index_to_id' = RebuildIndex(<<>>)
    /\ ret' = [op |-> "clear", error |-> "none"]

\* VectorStore.search
Search(q, top_k, th) ==
    /\ ret' = [op |-> "search", error |-> "none", query_embedding |-> q,
               top_k |-> top_k, threshold |-> th,
               result |-> SearchResult(documents, q, top_k, th)]
    /\ UNCHANGED vsVars

----------------------------------------------------------------------------
(* CacheManager *)

FixedCategories == {"embeddings", "queries", "responses"}
\* "general" is the default category of set and get
Categories == FixedCategories \cup {"general", "custom"}
Keys == {"k1"}
Values == {"v1", "v2"}

\* a file holding pickle.dump({'value': value, 'timestamp': time.time()})
PickleFile(value, t) ==
    [kind |-> "pickle", value |-> Some(value), timestamp |-> t, mtime |-> t]

\* a file that open(path, 'wb') created or truncated and nothing was written to
EmptyFile(t) == [kind |-> "empty", value |-> None, timestamp |-> t, mtime |-> t]

\* CacheManager._get_cache_path: cache_dir / category / key.pkl
\* a path that does not depend on the category
get_cache_path_flat(key, category) == <<"embeddings", key>>

get_cache_path(key, category) == <<category, key>>

\* a write that never reaches the file
WriteFileDropped(files, path, file) == files

WriteFile(files, path, file) ==
    [p \in (DOMAIN files) \cup {path} |-> IF p = path THEN file ELSE files[p]]

Unlink(files, paths) == [p \in (DOMAIN files) \ paths |-> files[p]]

\* an expiry test that already expires an entry of age ttl
TooOldInclusive(file_age, limit) == file_age >= limit

\* `file_age > self.ttl` of _is_expired
TooOld(file_age, limit) == file_age > limit

\* an expiry test that takes every entry for expired
is_expired_always(files, path, limit, t) == TRUE

\* CacheManager._is_expired at time t
is_expired(files, path, limit, t) ==
    IF path \notin DOMAIN files THEN TRUE
    ELSE TooOld(t - files[path].mtime, limit)

\* CacheManager.set at time t.  open(.., 'wb') raises FileNotFoundError when
\* the category directory does not exist; it creates or truncates the file
\* before pickle.dump runs, so a value that cannot be pickled leaves an empty
\* file behind and the error propagates.
SetOutcome(files, dirs, key, value, category, picklable, t) ==
    LET path == get_cache_path(key, category)
    IN  IF category \notin dirs
        THEN [error |-> "FileNotFoundError", files |-> files]
        ELSE IF ~picklable
        THEN [error |-> "PicklingError",
              files |-> WriteFile(files, path, EmptyFile(t))]
        ELSE [error |-> "none",
              files |-> WriteFile(files, path, PickleFile(value, t))]

\* the exceptions get catches: FileNotFoundError and pickle.UnpicklingError
CaughtByGet(error) == error \in {"FileNotFoundError", "UnpicklingError"}

\* pickle.load(f) followed by data['value']: an empty file makes pickle.load
\* raise EOFError ("Ran out of input")
LoadOutcome(file) ==
    IF file.kind = "empty"
    THEN [error |-> "EOFError", result |-> None]
    ELSE [error |-> "none", result |-> file.value]

\* a get that finds nothing, whatever is stored
GetOutcomeMiss(files, limit, key, category, t) ==
    [error |-> "none", result |-> None]

\* CacheManager.get at time t
GetOutcome(files, limit, key, category, t) ==
    LET path == get_cache_path(key, category)
    IN  IF is_expired(files, path, limit, t)
        THEN [error |-> "none", result |-> None]
        ELSE LET loaded == LoadOutcome(files[path])
             IN  IF loaded.error = "none" THEN loaded
                 ELSE IF CaughtByGet(loaded.error)
                      THEN [error |-> "none", result |-> None]
                      ELSE loaded

\* category_dir.glob("*.pkl")
FilesOf(files, category) == {p \in DOMAIN files : p[1] = category}

\* an expiry scan that finds nothing
ExpiredOfNone(files, limit, category, t) == {}

\* every file of the category, expired or not
ExpiredOfAll(files, limit, category, t) == FilesOf(files, category)

ExpiredOf(files, limit, category, t) ==
    {p \in FilesOf(files, category) : is_expired(files, p, limit, t)}

NoSet == [state |-> "none", value |-> None, at |-> 0]

\* no get, or no set, is under way
NoCall == [pc |-> "idle"]

\* the history of the entries of the fixed categories: a completed set, a set
\* that raised after truncating the file, or none since the entry was removed
RecordSet(path, outcome, value, t) ==
    IF path \notin DOMAIN last_set THEN last_set
    ELSE [last_set EXCEPT ![path] =
            IF outcome.error = "none"
            THEN [state |-> "stored", value |-> Some(value), at |-> t]
            ELSE [state |-> "raised", value |-> None, at |-> t]]

RecordRemoved(paths) ==
    [p \in DOMAIN last_set |-> IF p \in paths THEN NoSet ELSE last_set[p]]

\* CacheManager.set
Set(key, value, category, picklable) ==
    LET path == get_cache_path(key, category)
        outcome == SetOutcome(cache_files, cache_dirs, key, value, category,
                              picklable, now)
    IN  /\ cache_files' = outcome.files
        /\ last_set' = RecordSet(path, outcome, value, now)
        /\ ret' = [op |-> "set", error |-> outcome.error, key |-> key,
                   category |-> category, picklable |-> picklable]
        /\ UNCHANGED <<cache_dirs, ttl, now, get_call, set_call>>

\* CacheManager.get
Get(key, category) ==
    LET outcome == GetOutcome(cache_files, ttl, key, category, now)
    IN  /\ ret' = [op |-> "get", error |-> outcome.error, key |-> key,
                   category |-> category, result |-> outcome.result]
        /\ UNCHANGED cacheVars

\* CacheManager.clear_category
ClearCategory(category) ==
    LET gone == FilesOf(cache_files, category)
    IN  /\ cache_files' = Unlink(cache_files, gone)
        /\ last_set' = RecordRemoved(gone)
        /\ ret' = [op |-> "clear_category", error |-> "none",
                   category |-> category, result |-> Cardinality(gone)]
        /\ UNCHANGED <<cache_dirs, ttl, now, get_call, set_call>>

\* CacheManager.clear_expired
ClearExpired ==
    LET gone == UNION {ExpiredOf(cache_files, ttl, c, now) : c \in FixedCategories}
    IN  /\ cache_files' = Unlink(cache_files, gone)
        /\ last_set' = RecordRemoved(gone)
        /\ ret' = [op |-> "clear_expired", error |-> "none",
                   result |-> Cardinality(gone)]
        /\ UNCHANGED <<cache_dirs, ttl, now, get_call, set_call>>

\* CacheManager.get_stats
GetStats ==
    /\ ret' = [op |-> "get_stats", error |-> "none",
               result |-> [c \in FixedCategories |->
                   [total |-> Cardinality(FilesOf(cache_files, c)),
                    expired |-> Cardinality(ExpiredOf(cache_files, ttl, c, now))]]]
    /\ UNCHANGED cacheVars

\* A get in one thread and a set in another, with clears between their
\* steps.  An open file stays readable and writable after its directory
\* entry is unlinked: linked tells whether the handle's file is still the
\* one under its path, file is what an unlinked file holds, and shared
\* tells that the unlinked file of the set is the one the get holds.

\* the handles after the files under paths are unlinked
GetAfterUnlink(paths) ==
    IF get_call.pc = "load" /\ get_call.linked /\ get_call.path \in paths
    THEN [get_call EXCEPT !.linked = FALSE, !.file = cache_files[get_call.path]]
    ELSE get_call

SetAfterUnlink(paths) ==
    IF set_call.pc = "dump" /\ set_call.linked /\ set_call.path \in paths
    THEN [set_call EXCEPT !.linked = FALSE,
                          !.shared = /\ get_call.pc = "load"
                                     /\ get_call.linked
                                     /\ get_call.path = set_call.path]
    ELSE set_call

\* set, first step: open(cache_path, 'wb') creates or truncates the file
SetOpen(key, value, category) ==
    LET path == get_cache_path(key, category)
    IN  /\ set_call.pc = "idle"
        /\ IF category \notin cache_dirs
           THEN /\ ret' = [op |-> "set", error |-> "FileNotFoundError",
                           key |-> key, category |-> category,
                           picklable |-> TRUE]
                /\ UNCHANGED <<cache_files, set_call>>
           ELSE /\ cache_files' = WriteFile(cache_files, path, EmptyFile(now))
                /\ set_call' = [pc |-> "dump", path |-> path, key |-> key,
                                category |-> category, value |-> value,
                                linked |-> TRUE, shared |-> FALSE]
                /\ ret' = [op |-> "set_open", error |-> "none"]
        /\ UNCHANGED <<cache_dirs, ttl, now, last_set, get_call>>

\* set, second step: pickle.dump writes the entry and the with block closes
\* the file; set returns
SetDump ==
    /\ set_call.pc = "dump"
    /\ LET file == PickleFile(set_call.value, now)
       IN  IF set_call.linked
           THEN /\ cache_files' = WriteFile(cache_files, set_call.path, file)
                /\ last_set' = RecordSet(set_call.path, [error |-> "none"],
                                         set_call.value, now)
                /\ UNCHANGED get_call
           ELSE /\ get_call' = IF set_call.shared /\ get_call.pc = "load"
                                  /\ ~get_call.linked
                               THEN [get_call EXCEPT !.file = file]
                               ELSE get_call
                /\ UNCHANGED <<cache_files, last_set>>
    /\ set_call' = NoCall
    /\ ret' = [op |-> "set", error |-> "none", key |-> set_call.key,
               category |-> set_call.category, picklable |-> TRUE]
    /\ UNCHANGED <<cache_dirs, ttl, now>>

\* get returns (error "none") or raises
GetReturns(call, error, result) ==
    /\ get_call' = NoCall
    /\ set_call' = IF set_call.pc = "dump"
                   THEN [set_call EXCEPT !.shared = FALSE] ELSE set_call
    /\ ret' = [op |-> "get", error |-> error, key |-> call.key,
               category |-> call.category, result |-> result]

\* get, first step: `if not file_path.exists()` of _is_expired
GetExists(key, category) ==
    LET path == get_cache_path(key, category)
        call == [pc |-> "stat", path |-> path, key |-> key,
                 category |-> category, linked |-> FALSE, file |-> None]
    IN  /\ get_call.pc = "idle"
        /\ IF path \notin DOMAIN cache_files
           THEN GetReturns(call, "none", None)
           ELSE /\ get_call' = call
                /\ ret' = [op |-> "get_exists", error |-> "none"]
                /\ UNCHANGED set_call
        /\ UNCHANGED <<cache_files, cache_dirs, ttl, now, last_set>>

\* get, second step: file_path.stat().st_mtime of _is_expired, outside the
\* try block of get
GetStat ==
    /\ get_call.pc = "stat"
    /\ IF get_call.path \notin DOMAIN cache_files
       THEN GetReturns(get_call, "FileNotFoundError", None)
       ELSE IF TooOld(now - cache_files[get_call.path].mtime, ttl)
       THEN GetReturns(get_call, "none", None)
       ELSE /\ get_call' = [get_call EXCEPT !.pc = "open"]
            /\ ret' = [op |-> "get_stat", error |-> "none"]
            /\ UNCHANGED set_call
    /\ UNCHANGED <<cache_files, cache_dirs, ttl, now, last_set>>

\* get, third step: open(cache_path, 'rb') inside the try block
GetOpen ==
    /\ get_call.pc = "open"
    /\ IF get_call.path \notin DOMAIN cache_files
       THEN GetReturns(get_call, "none", None)
       ELSE /\ get_call' = [get_call EXCEPT !.pc = "load", !.linked = TRUE]
            /\ ret' = [op |-> "get_open", error |-> "none"]
            /\ UNCHANGED set_call
    /\ UNCHANGED <<cache_files, cache_dirs, ttl, now, last_set>>

\* the file that the open handle of get reads
FileOfGet ==
    IF get_call.linked THEN cache_files[get_call.path] ELSE get_call.file

\* get, last step: pickle.load(f) and return data['value']
GetLoad ==
    /\ get_call.pc = "load"
    /\ LET loaded == LoadOutcome(FileOfGet)
       IN  IF loaded.error = "none" \/ ~CaughtByGet(loaded.error)
           THEN GetReturns(get_call, loaded.error, loaded.result)
           ELSE GetReturns(get_call, "none", None)
    /\ UNCHANGED <<cache_files, cache_dirs, ttl, now, last_set>>

\* clear_category while a get or a set may be under way
ClearCategoryDuring(category) ==
    LET gone == FilesOf(cache_files, category)
    IN  /\ cache_files' = Unlink(cache_files, gone)
        /\ last_set' = RecordRemoved(gone)
        /\ get_call' = GetAfterUnlink(gone)
        /\ set_call' = SetAfterUnlink(gone)
        /\ ret' = [op |-> "clear_category", error |-> "none",
                   category |-> category, result |-> Cardinality(gone)]
        /\ UNCHANGED <<cache_dirs, ttl, now>>

\* clear_expired while a get or a set may be under way
ClearExpiredDuring ==
    LET gone == UNION {ExpiredOf(cache_files, ttl, c, now) : c \in FixedCategories}
    IN  /\ cache_files' = Unlink(cache_files, gone)
        /\ last_set' = RecordRemoved(gone)
        /\ get_call' = GetAfterUnlink(gone)
        /\ set_call' = SetAfterUnlink(gone)
        /\ ret' = [op |-> "clear_expired", error |-> "none",
                   result |-> Cardinality(gone)]
        /\ UNCHANGED <<cache_dirs, ttl, now>>

\* the clock advances
Tick ==
    /\ now < MaxTime
    /\ now' = now + 1
    /\ ret' = [op |-> "tick", error |-> "none"]
    /\ UNCHANGED <<cache_files, cache_dirs, ttl, last_set, get_call, set_call>>

----------------------------------------------------------------------------
(* DocumentChunker *)

\* str.isspace for the characters of the model
IsSpace(c) == c \in {" ", "\n"}

RECURSIVE LStrip(_)
LStrip(s) == IF s # <<>> /\ IsSpace(Head(s)) THEN LStrip(Tail(s)) ELSE s

RECURSIVE RStrip(_)
RStrip(s) ==
    IF s # <<>> /\ IsSpace(s[Len(s)]) THEN RStrip(SubSeq(s, 1, Len(s) - 1)) ELSE s

\* str.strip()
Strip(s) == RStrip(LStrip(s))

\* how Python reads a slice bound i on a string of length n: a negative bound
\* counts from the end, and the result is clipped to 0 .. n
SliceBound(i, n) == IF i < 0 THEN Max(i + n, 0) ELSE Min(i, n)

\* the 0-based positions text[start:end] takes
SlicePositions(n, start, end) ==
    {p \in 0 .. (n - 1) : SliceBound(start, n) <= p /\ p < SliceBound(end, n)}

\* text[start:end]
Slice(text, start, end) ==
    SubSeq(text, SliceBound(start, Len(text)) + 1, SliceBound(end, Len(text)))

SetMax(S) == CHOOSE x \in S : \A y \in S : y <= x

\* text.rfind(c, start, end): the last index of c in the slice, or -1
rfind(text, c, start, end) ==
    LET found == {p \in SlicePositions(Len(text), start, end) : text[p + 1] = c}
    IN  IF found = {} THEN -1 ELSE SetMax(found)

\* the end of the window that starts at start: start + chunk_size, moved back
\* to just behind the last '.' or newline of the window when the window does
\* not reach the end of the text
WindowEnd(text, start, size) ==
    LET end == start + size
    IN  IF end < Len(text)
        THEN LET period_idx == rfind(text, ".", start, end)
                 newline_idx == rfind(text, "\n", start, end)
                 break_idx == Max(period_idx, newline_idx)
             IN  IF break_idx > start THEN break_idx + 1 ELSE end
        ELSE end

\* `start = end - self.chunk_overlap`
NextStart(end, overlap) == end - overlap

\* `if not text or len(text) == 0: return []`, then `start = 0`
ChunkByTokensEnter ==
    /\ ck_pc = "call"
    /\ IF Len(ck_text) = 0
       THEN /\ ck_pc' = "done"
            /\ ret' = [op |-> "chunk_by_tokens", error |-> "none",
                       result |-> <<>>]
       ELSE /\ ck_pc' = "loop"
            /\ ret' = ret
    /\ ck_start' = 0
    /\ ck_chunks' = <<>>
    /\ UNCHANGED <<chunk_size, chunk_overlap, ck_text, ck_windows>>

\* one iteration of `while start < len(text)`
ChunkByTokensIterate ==
    /\ ck_pc = "loop"
    /\ ck_start < Len(ck_text)
    /\ Len(ck_windows) < Len(ck_text) + 2
    /\ LET end == WindowEnd(ck_text, ck_start, chunk_size)
           chunk == Strip(Slice(ck_text, ck_start, end))
       IN  /\ ck_chunks' = IF chunk # <<>> THEN Append(ck_chunks, chunk)
                           ELSE ck_chunks
           /\ ck_windows' = Append(ck_windows, <<ck_start, end>>)
           /\ ck_start' = NextStart(end, chunk_overlap)
    /\ UNCHANGED <<chunk_size, chunk_overlap, ck_text, ck_pc, ret>>

\* the loop ends and chunk_by_tokens returns chunks
ChunkByTokensReturn ==
    /\ ck_pc = "loop"
    /\ ck_start >= Len(ck_text)
    /\ ck_pc' = "done"
    /\ ret' = [op |-> "chunk_by_tokens", error |-> "none", result |-> ck_chunks]
    /\ UNCHANGED <<chunk_size, chunk_overlap, ck_text, ck_start, ck_chunks,
                   ck_windows>>

\* the last position of the run of whitespace that starts at position i
RECURSIVE SpaceRunEnd(_, _)
SpaceRunEnd(text, i) ==
    IF i < Len(text) /\ IsSpace(text[i + 1]) THEN SpaceRunEnd(text, i + 1) ELSE i

\* re.split(r'\n\s*\n', text) from position i on, the current piece starting
\* at position from: a separator is a newline, whitespace, and the last
\* newline of that run of whitespace (\s* is greedy)
RECURSIVE SplitParagraphs(_, _, _)
SplitParagraphs(text, i, from) ==
    IF i > Len(text) THEN <<SubSeq(text, from, Len(text))>>
    ELSE IF text[i] = "\n"
    THEN LET newlines == {m \in (i + 1) .. SpaceRunEnd(text, i) : text[m] = "\n"}
         IN  IF newlines = {} THEN SplitParagraphs(text, i + 1, from)
             ELSE <<SubSeq(text, from, i - 1)>> \o
                  SplitParagraphs(text, SetMax(newlines) + 1, SetMax(newlines) + 1)
    ELSE SplitParagraphs(text, i + 1, from)

\* the loop of chunk_by_paragraphs and the flush behind it
RECURSIVE PackParagraphs(_, _, _, _, _)
PackParagraphs(paragraphs, i, current_chunk, chunks, size) ==
    IF i > Len(paragraphs)
    THEN IF current_chunk # <<>> THEN Append(chunks, Strip(current_chunk))
         ELSE chunks
    ELSE LET para == Strip(paragraphs[i])
         IN  IF para = <<>>
             THEN PackParagraphs(paragraphs, i + 1, current_chunk, chunks, size)
             ELSE IF Len(current_chunk) + Len(para) > size /\ current_chunk # <<>>
             THEN PackParagraphs(paragraphs, i + 1, para,
                                 Append(chunks, Strip(current_chunk)), size)
             ELSE PackParagraphs(paragraphs, i + 1,
                                 (IF current_chunk # <<>>
                                  THEN current_chunk \o <<"\n", "\n">> \o para
                                  ELSE para),
                                 chunks, size)

\* a chunk_by_paragraphs whose loop skips the first paragraph
chunk_by_paragraphs_skipping(text, size) ==
    PackParagraphs(SplitParagraphs(text, 1, 1), 2, <<>>, <<>>, size)

\* DocumentChunker.chunk_by_paragraphs
chunk_by_paragraphs(text, size) ==
    PackParagraphs(SplitParagraphs(text, 1, 1), 1, <<>>, <<>>, size)

\* a wrapping loop that numbers the chunks from 1
WrapChunksOneBased(chunks) ==
    [i \in 1 .. Len(chunks) |->
        [text |-> chunks[i], chunk_id |-> i, chunk_count |-> Len(chunks)]]

\* the wrapping loop of chunk_document: chunk_id is the 0-based position
WrapChunks(chunks) ==
    [i \in 1 .. Len(chunks) |->
        [text |-> chunks[i], chunk_id |-> i - 1, chunk_count |-> Len(chunks)]]

\* DocumentChunker.chunk_document(text, strategy="paragraphs")
chunk_document_paragraphs(text, size) == WrapChunks(chunk_by_paragraphs(text, size))

\* the characters after which re.split(r'(?<=[.!?])\s+', text) may split
SentenceEnds == {".", "!", "?"}

\* re.split(r'(?<=[.!?])\s+', text) from position i on, the current piece
\* starting at position from: a separator is a whole run of whitespace that
\* follows a sentence end
RECURSIVE SplitSentences(_, _, _)
SplitSentences(text, i, from) ==
    IF i > Len(text) THEN <<SubSeq(text, from, Len(text))>>
    ELSE IF IsSpace(text[i]) /\ i > 1 /\ text[i - 1] \in SentenceEnds
    THEN <<SubSeq(text, from, i - 1)>> \o
         SplitSentences(text, SpaceRunEnd(text, i) + 1, SpaceRunEnd(text, i) + 1)
    ELSE SplitSentences(text, i + 1, from)

\* the loop of chunk_by_sentences and the flush behind it
RECURSIVE PackSentences(_, _, _, _, _)
PackSentences(sentences, i, current_chunk, chunks, size) ==
    IF i > Len(sentences)
    THEN IF current_chunk # <<>> THEN Append(chunks, Strip(current_chunk))
         ELSE chunks
    ELSE LET sentence == Strip(sentences[i])
         IN  IF sentence = <<>>
             THEN PackSentences(sentences, i + 1, current_chunk, chunks, size)
             ELSE IF Len(current_chunk) + Len(sentence) > size /\ current_chunk # <<>>
             THEN PackSentences(sentences, i + 1, sentence,
                                Append(chunks, Strip(current_chunk)), size)
             ELSE PackSentences(sentences, i + 1,
                                (IF current_chunk # <<>>
                                 THEN current_chunk \o <<" ">> \o sentence
                                 ELSE sentence),
                                chunks, size)

\* DocumentChunker.chunk_by_sentences
chunk_by_sentences(text, size) ==
    PackSentences(SplitSentences(text, 1, 1), 1, <<>>, <<>>, size)

\* a call of chunk_by_paragraphs(text)
ChunkByParagraphs ==
    /\ ck_pc = "call"
    /\ ck_pc' = "done"
    /\ ret' = [op |-> "chunk_by_paragraphs", error |-> "none",
               result |-> chunk_by_paragraphs(ck_text, chunk_size)]
    /\ UNCHANGED <<chunk_size, chunk_overlap, ck_text, ck_start, ck_chunks,
                   ck_windows>>

\* a call of chunk_by_sentences(text)
ChunkBySentences ==
    /\ ck_pc = "call"
    /\ ck_pc' = "done"
    /\ ret' = [op |-> "chunk_by_sentences", error |-> "none",
               result |-> chunk_by_sentences(ck_text, chunk_size)]
    /\ UNCHANGED <<chunk_size, chunk_overlap, ck_text, ck_start, ck_chunks,
                   ck_windows>>

\* the strategy of chunk_document that dispatches to each chunker
StrategyOf ==
    [chunk_by_paragraphs |-> "paragraphs", chunk_by_sentences |-> "sentences",
     chunk_by_tokens |-> "tokens"]

\* chunk_document after the chunker it dispatched to has returned: the
\* wrapping loop and the return of result
ChunkDocumentReturn ==
    /\ ck_pc = "done"
    /\ ret.op \in DOMAIN StrategyOf
    /\ ck_pc' = "wrapped"
    /\ ret' = [op |-> "chunk_document", error |-> "none",
               strategy |-> StrategyOf[ret.op], pieces |-> ret.result,
               result |-> WrapChunks(ret.result)]
    /\ UNCHANGED <<chunk_size, chunk_overlap, ck_text, ck_start, ck_chunks,
                   ck_windows>>

----------------------------------------------------------------------------
(* DocuMind (main.py): process_pdf and query over the chunker, the cache,   *)
(* the vector store and the query processor, with the external              *)
(* collaborators (PDF extractor, embedding generator, answer generator,     *)
(* file system) as inputs of the steps.                                     *)

\* CacheManager._generate_key: the SHA-256 of the text, taken as free of
\* collisions
generate_key(data) == <<"sha256", data>>

\* The arguments of _generate_key other than texts: integers, dicts (the items
\* in insertion order), lists and tuples.
IntData == {[t |-> "int", n |-> n] : n \in {1, 2}}
DictKeys == {"a", "b"}
SortedKeys == <<"a", "b">>
KeyOrders == {<<>>, <<"a">>, <<"b">>, <<"a", "b">>, <<"b", "a">>}

\* the dicts that have their keys in one of the orders and their values in V
DictsOver(V) ==
    UNION {{[t |-> "dict", pairs |-> [i \in 1 .. Len(ks) |-> <<ks[i], vs[i]>>]] :
               vs \in [1 .. Len(ks) -> V]} : ks \in KeyOrders}

ListsOver(V) ==
    UNION {{[t |-> "list", items |-> xs] : xs \in [1 .. n -> V]} :
              n \in 0 .. MaxItems}

TuplesOver(V) ==
    UNION {{[t |-> "tuple", elems |-> xs] : xs \in [1 .. n -> V]} :
              n \in 0 .. MaxItems}

InnerData == IntData \cup DictsOver(IntData)
KeyData ==
    InnerData \cup DictsOver(InnerData) \cup ListsOver(InnerData) \cup
    TuplesOver(InnerData)

\* ', '.join(parts)
RECURSIVE JoinComma(_)
JoinComma(parts) ==
    IF parts = <<>> THEN <<>>
    ELSE IF Len(parts) = 1 THEN parts[1]
    ELSE parts[1] \o <<", ">> \o JoinComma(Tail(parts))

\* the pairs of a dict, sorted by key
SortedPairs(pairs) ==
    LET present == SelectSeq(SortedKeys,
                             LAMBDA k : \E i \in DOMAIN pairs : pairs[i][1] = k)
    IN  [j \in DOMAIN present |->
            pairs[CHOOSE i \in DOMAIN pairs : pairs[i][1] = present[j]]]

\* json.dumps(data, sort_keys=True), as the sequence of the tokens of the
\* string: the keys of every dict are sorted, a tuple is written as a list
RECURSIVE json_dumps(_)
json_dumps(data) ==
    IF data.t = "int" THEN <<ToString(data.n)>>
    ELSE IF data.t = "dict"
    THEN LET sorted == SortedPairs(data.pairs)
         IN  <<"{">> \o
             JoinComma([i \in DOMAIN sorted |->
                           <<"\"" \o sorted[i][1] \o "\"", ": ">> \o
                           json_dumps(sorted[i][2])]) \o
             <<"}">>
    ELSE IF data.t = "list"
    THEN <<"[">> \o
         JoinComma([i \in DOMAIN data.items |-> json_dumps(data.items[i])]) \o
         <<"]">>
    ELSE <<"[">> \o
         JoinComma([i \in DOMAIN data.elems |-> json_dumps(data.elems[i])]) \o
         <<"]">>

\* str(data), as the sequence of the tokens of the string: a dict is written
\* in the insertion order of its keys
RECURSIVE py_str(_)
py_str(data) ==
    IF data.t = "int" THEN <<ToString(data.n)>>
    ELSE IF data.t = "dict"
    THEN <<"{">> \o
         JoinComma([i \in DOMAIN data.pairs |->
                       <<"'" \o data.pairs[i][1] \o "'", ": ">> \o
                       py_str(data.pairs[i][2])]) \o
         <<"}">>
    ELSE IF data.t = "list"
    THEN <<"[">> \o
         JoinComma([i \in DOMAIN data.items |-> py_str(data.items[i])]) \o
         <<"]">>
    ELSE <<"(">> \o
         JoinComma([i \in DOMAIN data.elems |-> py_str(data.elems[i])]) \o
         (IF Len(data.elems) = 1 THEN <<",", ")">> ELSE <<")">>)

\* CacheManager._generate_key on such an argument: json.dumps for a dict or a
\* list, str for anything else, then the SHA-256
generate_key_of(data) ==
    generate_key(IF data.t \in {"dict", "list"} THEN json_dumps(data)
                 ELSE py_str(data))

\* a call of _generate_key
GenerateKey(data) ==
    /\ ret' = [op |-> "generate_key", data |-> data,
               result |-> generate_key_of(data)]
    /\ UNCHANGED <<vsVars, cacheVars, chunkVars, appVars>>

\* what pdf_processor.process_document can extract from a file
DocTexts == {<<>>, <<"b">>, <<"a", "\n", "\n", "b">>, <<"a", "\n", "\n", "a">>}
AskTexts == {<<"a">>}
FilePaths == {"f1"}
Answers == {"A1"}

\* EmbeddingGenerator.embed_text: owned by src.embeddings, a function of the text
embed_text(text) ==
    IF text = <<"a">> THEN <<1, 0>>
    ELSE IF text = <<"b">> THEN <<0, 1>>
    ELSE <<1, 1>>

\* the exceptions of the collaborators
ExtractError == [type |-> "FileNotFoundError", message |-> "no such file"]
EmbedError == [type |-> "RuntimeError", message |-> "embedding failed"]
GenerateError == [type |-> "APIError", message |-> "generation failed"]
WriteError == [type |-> "OSError", message |-> "No space left on device"]
CacheReadError == [type |-> "EOFError", message |-> "Ran out of input"]
DimensionError == [type |-> "ValueError", message |-> "Embedding dimension mismatch"]

\* the reraise parameter of handle_error: DocuMind leaves it at its default
reraise == FALSE

\* an error record that names no cause
handle_error_anonymous(error, context) ==
    [error_type |-> "Exception", error_message |-> "", context |-> context]

\* ErrorHandler.handle_error(error, context)
handle_error(error, context) ==
    [error_type |-> error.type, error_message |-> error.message,
     context |-> context]

\* CacheManager.set of a picklable value by DocuMind: with io_ok the entry is
\* written, without it the write fails behind open(cache_path, 'wb'), which
\* has truncated the file
CacheWrite(files, dirs, key, value, category, io_ok, t) ==
    IF io_ok THEN SetOutcome(files, dirs, key, value, category, TRUE, t)
    ELSE [error |-> "OSError",
          files |-> WriteFile(files, get_cache_path(key, category), EmptyFile(t))]

----------------------------------------------------------------------------
(* EmbeddingGenerator (an external collaborator): a deterministic function  *)
(* from a text to a vector of the store's dimension.                        *)

Questions == {"q1", "q2"}

\* EmbeddingGenerator.embed_query
embed_query(query) == IF query = "q1" THEN <<1, 0>> ELSE <<1, 1>>

----------------------------------------------------------------------------
(* QueryProcessor *)

\* the default threshold of process_query, 0.7
DefaultThreshold == <<7, 10>>

\* QueryProcessor.process_query: embed the query, search, format the results
process_query(docs, query, top_k, th) ==
    SearchResult(docs, embed_query(query), top_k, th)

\* a best-fit loop: a content that does not fit is skipped and the loop
\* goes on with the next result
RECURSIVE ContextPartsBestFit(_, _, _, _)
ContextPartsBestFit(results, i, total_length, max_context_length) ==
    IF i > Len(results) THEN <<>>
    ELSE IF total_length + Len(results[i].content) <= max_context_length
         THEN <<results[i].content>> \o
              ContextPartsBestFit(results, i + 1,
                                  total_length + Len(results[i].content),
                                  max_context_length)
         ELSE ContextPartsBestFit(results, i + 1, total_length,
                                  max_context_length)

\* the loop of get_context_for_generation: the contents taken before the
\* first one that does not fit
RECURSIVE ContextParts(_, _, _, _)
ContextParts(results, i, total_length, max_context_length) ==
    IF i > Len(results) THEN <<>>
    ELSE IF total_length + Len(results[i].content) <= max_context_length
         THEN <<results[i].content>> \o
              ContextParts(results, i + 1,
                           total_length + Len(results[i].content),
                           max_context_length)
         ELSE <<>>

\* '\n\n'.join(parts)
RECURSIVE JoinParts(_)
JoinParts(parts) ==
    IF parts = <<>> THEN <<>>
    ELSE IF Len(parts) = 1 THEN parts[1]
    ELSE parts[1] \o <<"\n", "\n">> \o JoinParts(Tail(parts))

\* QueryProcessor.get_context_for_generation
ContextData(docs, query, top_k, max_context_length) ==
    LET results == process_query(docs, query, top_k, DefaultThreshold)
        context_parts == ContextParts(results, 1, 0, max_context_length)
    IN  [query |-> query,
         context |-> JoinParts(context_parts),
         sources |-> results,
         num_sources |-> Len(context_parts)]

\* QueryProcessor.get_context_for_generation, called on the store
GetContextForGeneration(query, top_k, max_context_length) ==
    /\ ret' = [op |-> "get_context", error |-> "none", top_k |-> top_k,
               max_context_length |-> max_context_length,
               result |-> ContextData(documents, query, top_k, max_context_length)]
    /\ UNCHANGED vsVars

\* str.lower on the letters of the texts
LowerChar(c) == IF c = "A" THEN "a" ELSE IF c = "B" THEN "b" ELSE c
Lower(text) == [i \in DOMAIN text |-> LowerChar(text[i])]

\* str.split(): the maximal runs of non-whitespace characters, in order
RECURSIVE SplitWords(_, _, _)
SplitWords(text, i, word) ==
    IF i > Len(text) THEN (IF word = <<>> THEN <<>> ELSE <<word>>)
    ELSE IF IsSpace(text[i])
    THEN (IF word = <<>> THEN <<>> ELSE <<word>>) \o SplitWords(text, i + 1, <<>>)
    ELSE SplitWords(text, i + 1, Append(word, text[i]))

\* set(text.lower().split())
TermsOf(text) ==
    LET words == SplitWords(Lower(text), 1, <<>>)
    IN  {words[i] : i \in DOMAIN words}

\* len(query_terms.intersection(content_terms))
keyword_overlap(query, content) == Cardinality(TermsOf(query) \cap TermsOf(content))

\* the first loop of rerank_results: result['rerank_score'] is set in every
\* result; scores are counted in hundredths, so that keyword_overlap * 0.01
\* is keyword_overlap
WithRerankScore(query, results) ==
    [i \in DOMAIN results |->
        [content |-> results[i].content, score |-> results[i].score,
         doc_id |-> results[i].doc_id,
         rerank_score |-> results[i].score
                            + keyword_overlap(query, results[i].content)]]

\* a sort that is not stable: x goes in front of the elements of equal key
RECURSIVE InsertByRerankUnstable(_, _)
InsertByRerankUnstable(sorted, x) ==
    IF sorted = <<>> THEN <<x>>
    ELSE IF x.rerank_score >= Head(sorted).rerank_score
         THEN <<x>> \o sorted
         ELSE <<Head(sorted)>> \o InsertByRerankUnstable(Tail(sorted), x)

\* where results.sort(key=rerank_score, reverse=True) puts x into an already
\* sorted prefix: behind every element whose key is not smaller
RECURSIVE InsertByRerank(_, _)
InsertByRerank(sorted, x) ==
    IF sorted = <<>> THEN <<x>>
    ELSE IF x.rerank_score > Head(sorted).rerank_score
         THEN <<x>> \o sorted
         ELSE <<Head(sorted)>> \o InsertByRerank(Tail(sorted), x)

RECURSIVE SortByRerankFrom(_, _, _)
SortByRerankFrom(s, i, acc) ==
    IF i > Len(s) THEN acc
    ELSE SortByRerankFrom(s, i + 1, InsertByRerank(acc, s[i]))

\* QueryProcessor.rerank_results
rerank_results(query, results) ==
    SortByRerankFrom(WithRerankScore(query, results), 1, <<>>)

\* the arguments of rerank_results: queries and contents of one or two words,
\* scores in hundredths one keyword apart
RerankQueries == {<<"a">>, <<"A", " ", "b">>}
RerankContents == {<<"a">>, <<"b", " ", " ", "a">>, <<"c">>}
RerankScores == {70, 71, 72}
ResultItems == [content : RerankContents, score : RerankScores, doc_id : {"a"}]
ResultLists == UNION {[1 .. n -> ResultItems] : n \in 0 .. MaxResults}

\* rerank_results(query, results) on a list of retrieval results
RerankResults(query, results) ==
    /\ ret' = [op |-> "rerank_results", error |-> "none", query |-> query,
               input |-> results, result |-> rerank_results(query, results)]
    /\ UNCHANGED <<vsVars, cacheVars, chunkVars, appVars>>

\* rerank_results(query, results) on the list that the last call returned
RerankReturned(query) ==
    /\ ret.op = "rerank_results"
    /\ RerankResults(query, ret.result)

----------------------------------------------------------------------------
\* VectorStore.__init__
VsInit ==
    /\ documents = <<>>
    /\ index_to_id = RebuildIndex(<<>>)

\* CacheManager.__init__ on a fresh cache_dir, with ttl the constructor's argument
CacheInit(limit) ==
    /\ cache_files = [p \in {} |-> None]
    /\ cache_dirs = FixedCategories
    /\ ttl = limit
    /\ now = 0
    /\ last_set = [p \in FixedCategories \X Keys |-> NoSet]
    /\ get_call = NoCall
    /\ set_call = NoCall

\* CacheManager.__init__ on a cache_dir in which the directories existing are
\* already there (mkdir(exist_ok=True) keeps them)
CacheInitWith(existing, limit) ==
    /\ cache_files = [p \in {} |-> None]
    /\ cache_dirs = FixedCategories \cup existing
    /\ ttl = limit
    /\ now = 0
    /\ last_set = [p \in FixedCategories \X Keys |-> NoSet]
    /\ get_call = NoCall
    /\ set_call = NoCall

\* DocumentChunker.__init__, and no chunk_by_tokens call under way
ChunkerInit(size, overlap) ==
    /\ chunk_size = size
    /\ chunk_overlap = overlap
    /\ ck_text = <<>>
    /\ ck_start = 0
    /\ ck_chunks = <<>>
    /\ ck_windows = <<>>
    /\ ck_pc = "done"

----------------------------------------------------------------------------
(* DocuMind.process_pdf and DocuMind.query. *)

\* DocuMind.__init__
AppInit(caching) ==
    /\ use_cache = caching
    /\ app_pc = "idle"
    /\ file_path = ""
    /\ pdf_chunks = <<>>
    /\ chunk_i = 0

\* an id that leaves out the chunk: f"{file_path}"
doc_id_of_file(path, chunk_id) == path

\* f"{file_path}_{chunk['chunk_id']}"
doc_id_of(path, chunk_id) == path \o "_" \o ToString(chunk_id)

\* process_pdf returns or fails: its locals are gone
LeaveProcessPdf ==
    /\ app_pc' = "idle"
    /\ file_path' = ""
    /\ pdf_chunks' = <<>>
    /\ chunk_i' = 0

\* process_pdf up to its loop: extracted is the text the extractor returns,
\* or None when the extractor raises; the call is made when the store has
\* room for the chunks within capacity entries
ProcessPdfStartWithin(path, extracted, capacity) ==
    /\ app_pc = "idle"
    /\ IF extracted.some
       THEN LET new_chunks == chunk_document_paragraphs(extracted.value, chunk_size)
            IN  /\ Len(documents) + Len(new_chunks) <= capacity
                /\ app_pc' = "ingest"
                /\ file_path' = path
                /\ pdf_chunks' = new_chunks
                /\ chunk_i' = 0
                /\ ret' = [op |-> "process_pdf_start", file_path |-> path,
                           calls |-> <<"process_document", "chunk_document">>]
       ELSE /\ ret' = [op |-> "process_pdf", file_path |-> path,
                       calls |-> <<"process_document">>,
                       failure |-> Some(ExtractError), raised |-> reraise,
                       result |-> handle_error(ExtractError, "process_pdf")]
            /\ UNCHANGED <<app_pc, file_path, pdf_chunks, chunk_i>>
    /\ UNCHANGED <<use_cache, vsVars, cacheVars, chunkVars>>

ProcessPdfStart(path, extracted) == ProcessPdfStartWithin(path, extracted, MaxDocs)

\* one iteration of process_pdf's loop on the chunk: the exception it raises
\* (None when it completes), the collaborator calls it makes, and the cache
\* files and the documents it leaves
ChunkOutcome(chunk, embed_ok, io_ok) ==
    LET key == generate_key(chunk.text)
        lookup == IF use_cache
                  THEN GetOutcome(cache_files, ttl, key, "embeddings", now)
                  ELSE [error |-> "none", result |-> None]
        looked == IF use_cache THEN <<"cache_get">> ELSE <<>>
        doc_id == doc_id_of(file_path, chunk.chunk_id)
        Inserted(embedding, calls, files) ==
            LET added == AddOutcome(documents, doc_id, chunk.text, embedding)
            IN  [error |-> IF added.error = "none" THEN None
                           ELSE Some(DimensionError),
                 calls |-> Append(calls, "add_document"),
                 files |-> files, docs |-> added.docs, doc_id |-> doc_id]
        Failed(error, calls, files) ==
            [error |-> Some(error), calls |-> calls, files |-> files,
             docs |-> documents, doc_id |-> doc_id]
    IN  IF lookup.error # "none"
        THEN Failed(CacheReadError, looked, cache_files)
        ELSE IF lookup.result.some
        THEN Inserted(lookup.result.value, looked, cache_files)
        ELSE IF ~embed_ok
        THEN Failed(EmbedError, Append(looked, "embed_text"), cache_files)
        ELSE IF ~use_cache
        THEN Inserted(embed_text(chunk.text), Append(looked, "embed_text"),
                      cache_files)
        ELSE LET written == CacheWrite(cache_files, cache_dirs, key,
                                       embed_text(chunk.text), "embeddings",
                                       io_ok, now)
                 calls == looked \o <<"embed_text", "cache_set">>
             IN  IF written.error # "none"
                 THEN Failed(WriteError, calls, written.files)
                 ELSE Inserted(embed_text(chunk.text), calls, written.files)

\* one iteration of the loop of process_pdf; a raised exception ends the call
\* in handle_error
ProcessChunk(embed_ok, io_ok) ==
    /\ app_pc = "ingest"
    /\ chunk_i < Len(pdf_chunks)
    /\ LET chunk == pdf_chunks[chunk_i + 1]
           outcome == ChunkOutcome(chunk, embed_ok, io_ok)
       IN  /\ cache_files' = outcome.files
           /\ documents' = outcome.docs
           /\ index_to_id' =
                  IF outcome.error.some THEN index_to_id
                  ELSE IndexAfterAdd(index_to_id, Len(documents), outcome.doc_id)
           /\ IF outcome.error.some
              THEN /\ LeaveProcessPdf
                   /\ ret' = [op |-> "process_chunk", text |-> chunk.text,
                              calls |-> outcome.calls,
                              failure |-> outcome.error, raised |-> reraise,
                              result |-> handle_error(outcome.error.value,
                                                      "process_pdf")]
              ELSE /\ chunk_i' = chunk_i + 1
                   /\ ret' = [op |-> "process_chunk", text |-> chunk.text,
                              calls |-> outcome.calls,
                              failure |-> None, raised |-> FALSE,
                              result |-> None]
                   /\ UNCHANGED <<app_pc, file_path, pdf_chunks>>
    /\ UNCHANGED <<use_cache, cache_dirs, ttl, now, last_set, get_call, set_call,
                   chunkVars>>

\* the loop of process_pdf is over: the success record
ProcessPdfReturn ==
    /\ app_pc = "ingest"
    /\ chunk_i = Len(pdf_chunks)
    /\ LeaveProcessPdf
    /\ ret' = [op |-> "process_pdf", file_path |-> file_path, calls |-> <<>>,
               failure |-> None, raised |-> FALSE,
               result |-> [status |-> "success",
                           chunks_processed |-> Len(pdf_chunks),
                           file_path |-> file_path]]
    /\ UNCHANGED <<use_cache, vsVars, cacheVars, chunkVars>>

\* defaults and literals of the query path
DefaultMaxContextLength == 2000
SnippetLength == 100
MaxSources == 3

\* the sources of generate_with_sources: the first three, with a snippet
SourcesOf(sources) ==
    [i \in 1 .. Min(MaxSources, Len(sources)) |->
        [doc_id |-> sources[i].id, score |-> sources[i].score,
         snippet |-> TakeFirst(sources[i].content, SnippetLength) \o
                     <<".", ".", ".">>]]

\* the try block of DocuMind.query: the exception it raises (None when it
\* returns), what it returns, the collaborator calls it makes and the cache
\* files it leaves; answer is the text of the answer generator, or None
\* when the generator raises
QueryOutcome(question, top_k, embed_ok, answer, io_ok) ==
    LET key == generate_key(question)
        lookup == IF use_cache
                  THEN GetOutcome(cache_files, ttl, key, "queries", now)
                  ELSE [error |-> "none", result |-> None]
        looked == IF use_cache THEN <<"cache_get">> ELSE <<>>
        context_data == ContextData(documents, question, top_k,
                                    DefaultMaxContextLength)
        result == [status |-> "success",
                   query |-> question,
                   answer |-> answer.value,
                   sources |-> SourcesOf(context_data.sources),
                   num_sources |-> context_data.num_sources]
        Failed(error, calls, files) ==
            [error |-> Some(error), result |-> None, calls |-> calls,
             files |-> files]
    IN  IF lookup.error # "none"
        THEN Failed(CacheReadError, looked, cache_files)
        ELSE IF lookup.result.some
        THEN [error |-> None, result |-> lookup.result.value, calls |-> looked,
              files |-> cache_files]
        ELSE IF ~embed_ok
        THEN Failed(EmbedError, Append(looked, "embed_query"), cache_files)
        ELSE IF ~answer.some
        THEN Failed(GenerateError,
                    looked \o <<"embed_query", "search", "generate">>,
                    cache_files)
        ELSE IF ~use_cache
        THEN [error |-> None, result |-> result,
              calls |-> looked \o <<"embed_query", "search", "generate">>,
              files |-> cache_files]
        ELSE LET written == CacheWrite(cache_files, cache_dirs, key, result,
                                       "queries", io_ok, now)
                 calls == looked \o <<"embed_query", "search", "generate",
                                      "cache_set">>
             IN  IF written.error # "none"
                 THEN Failed(WriteError, calls, written.files)
                 ELSE [error |-> None, result |-> result, calls |-> calls,
                       files |-> written.files]

\* DocuMind.query: an exception of the try block ends in handle_error
Query(question, top_k, embed_ok, answer, io_ok) ==
    /\ app_pc = "idle"
    /\ LET outcome == QueryOutcome(question, top_k, embed_ok, answer, io_ok)
       IN  /\ cache_files' = outcome.files
           /\ ret' = [op |-> "query", question |-> question, top_k |-> top_k,
                      calls |-> outcome.calls,
                      failure |-> outcome.error,
                      raised |-> outcome.error.some /\ reraise,
                      result |-> IF outcome.error.some
                                 THEN handle_error(outcome.error.value, "query")
                                 ELSE outcome.result]
    /\ UNCHANGED <<vsVars, cache_dirs, ttl, now, last_set, get_call, set_call,
                   chunkVars, appVars>>

\* DocuMind.clear_cache
ClearCache ==
    /\ app_pc = "idle"
    /\ IF use_cache
       THEN LET gone == UNION {ExpiredOf(cache_files, ttl, c, now) :
                                   c \in FixedCategories}
            IN  /\ cache_files' = Unlink(cache_files, gone)
                /\ ret' = [op |-> "clear_cache",
                           result |-> [status |-> "success",
                                       expired_entries_cleared |->
                                           Cardinality(gone)]]
       ELSE /\ ret' = [op |-> "clear_cache",
                       result |-> [status |-> "error",
                                   message |-> "Cache not enabled"]]
            /\ UNCHANGED cache_files
    /\ UNCHANGED <<vsVars, cache_dirs, ttl, now, last_set, get_call, set_call,
                   chunkVars, appVars>>

\* vector_store.clear() on the application's store, between calls
ClearStore ==
    /\ app_pc = "idle"
    /\ Clear

(* The vector store. *)
Init ==
    /\ VsInit
    /\ CacheInit(MaxTtl)
    /\ ChunkerInit(MaxChunkSize, 0)
    /\ AppInit(FALSE)
    /\ ret = [op |-> "init", error |-> "none"]

Next ==
    \/ /\ \E id \in DocIds, c \in Contents, e \in Vectors \cup WrongVectors :
              AddDocument(id, c, e)
       /\ UNCHANGED <<cacheVars, chunkVars, appVars>>
    \/ /\ \E id \in DocIds : Delete(id)
       /\ UNCHANGED <<cacheVars, chunkVars, appVars>>
    \/ /\ Clear
       /\ UNCHANGED <<cacheVars, chunkVars, appVars>>
    \/ /\ \E q \in QueryVectors, k \in 0 .. MaxTopK, th \in Thresholds :
              Search(q, k, th)
       /\ UNCHANGED <<cacheVars, chunkVars, appVars>>

Spec == Init /\ [][Next]_vars

(* The entries of the vector store: inserts, lookups and deletes. *)
NextStore ==
    \/ /\ \E id \in DocIds, c \in Contents, e \in Vectors \cup WrongVectors :
              AddDocument(id, c, e)
       /\ UNCHANGED <<cacheVars, chunkVars, appVars>>
    \/ /\ \E id \in DocIds : GetById(id)
       /\ UNCHANGED <<cacheVars, chunkVars, appVars>>
    \/ /\ \E id \in DocIds : Delete(id)
       /\ UNCHANGED <<cacheVars, chunkVars, appVars>>
    \/ /\ Clear
       /\ UNCHANGED <<cacheVars, chunkVars, appVars>>

SpecStore == Init /\ [][NextStore]_vars

(* The query processor on a vector store. *)
NextQuery ==
    \/ /\ \E id \in DocIds, c \in Contents, e \in Vectors :
              AddDocument(id, c, e)
       /\ UNCHANGED <<cacheVars, chunkVars, appVars>>
    \/ /\ \E id \in DocIds : Delete(id)
       /\ UNCHANGED <<cacheVars, chunkVars, appVars>>
    \/ /\ Clear
       /\ UNCHANGED <<cacheVars, chunkVars, appVars>>
    \/ /\ \E q \in Questions, k \in 0 .. MaxTopK, m \in 0 .. MaxCtxLen :
              GetContextForGeneration(q, k, m)
       /\ UNCHANGED <<cacheVars, chunkVars, appVars>>

SpecQuery == Init /\ [][NextQuery]_vars

(* The context assembly on a store that is only filled and cleared. *)
ContextVectors == {<<1, 0>>, <<1, 1>>}

NextContext ==
    \/ /\ \E id \in DocIds, c \in Contents, e \in ContextVectors :
              AddDocument(id, c, e)
       /\ UNCHANGED <<cacheVars, chunkVars, appVars>>
    \/ /\ Clear
       /\ UNCHANGED <<cacheVars, chunkVars, appVars>>
    \/ /\ \E q \in Questions, k \in 0 .. MaxTopK, m \in 0 .. MaxCtxLen :
              GetContextForGeneration(q, k, m)
       /\ UNCHANGED <<cacheVars, chunkVars, appVars>>

SpecContext == Init /\ [][NextContext]_vars

(* rerank_results on lists of retrieval results. *)
NextRerank ==
    \/ \E query \in RerankQueries, results \in ResultLists :
           RerankResults(query, results)
    \/ \E query \in RerankQueries : RerankReturned(query)

SpecRerank == Init /\ [][NextRerank]_vars

(* The cache manager. *)
InitCache ==
    /\ VsInit
    /\ \E limit \in 0 .. MaxTtl : CacheInit(limit)
    /\ ChunkerInit(MaxChunkSize, 0)
    /\ AppInit(FALSE)
    /\ ret = [op |-> "init", error |-> "none"]

NextCache ==
    \/ /\ \E k \in Keys, v \in Values, c \in Categories, picklable \in BOOLEAN :
              Set(k, v, c, picklable)
       /\ UNCHANGED <<vsVars, chunkVars, appVars>>
    \/ /\ \E k \in Keys, c \in Categories : Get(k, c)
       /\ UNCHANGED <<vsVars, chunkVars, appVars>>
    \/ /\ \E c \in Categories : ClearCategory(c)
       /\ UNCHANGED <<vsVars, chunkVars, appVars>>
    \/ /\ ClearExpired
       /\ UNCHANGED <<vsVars, chunkVars, appVars>>
    \/ /\ GetStats
       /\ UNCHANGED <<vsVars, chunkVars, appVars>>
    \/ /\ Tick
       /\ UNCHANGED <<vsVars, chunkVars, appVars>>

SpecCache == InitCache /\ [][NextCache]_vars

(* A get that runs concurrently with a set and with clears. *)
RaceCategories == {"queries", "general"}

NextRace ==
    \/ /\ \E k \in Keys, v \in Values, c \in RaceCategories : SetOpen(k, v, c)
       /\ UNCHANGED <<vsVars, chunkVars, appVars>>
    \/ /\ SetDump
       /\ UNCHANGED <<vsVars, chunkVars, appVars>>
    \/ /\ \E k \in Keys, c \in RaceCategories : GetExists(k, c)
       /\ UNCHANGED <<vsVars, chunkVars, appVars>>
    \/ /\ GetStat
       /\ UNCHANGED <<vsVars, chunkVars, appVars>>
    \/ /\ GetOpen
       /\ UNCHANGED <<vsVars, chunkVars, appVars>>
    \/ /\ GetLoad
       /\ UNCHANGED <<vsVars, chunkVars, appVars>>
    \/ /\ \E c \in RaceCategories : ClearCategoryDuring(c)
       /\ UNCHANGED <<vsVars, chunkVars, appVars>>
    \/ /\ ClearExpiredDuring
       /\ UNCHANGED <<vsVars, chunkVars, appVars>>
    \/ /\ Tick
       /\ UNCHANGED <<vsVars, chunkVars, appVars>>

SpecRace == InitCache /\ [][NextRace]_vars

(* _generate_key, called on structured arguments. *)
NextKey == \E data \in KeyData : GenerateKey(data)

SpecKey == InitCache /\ [][NextKey]_vars

(* The cache manager on a cache_dir that holds a caller-defined category. *)
CustomCategories == {"queries", "custom"}

InitCustom ==
    /\ VsInit
    /\ \E limit \in 0 .. MaxTtl : CacheInitWith({"custom"}, limit)
    /\ ChunkerInit(MaxChunkSize, 0)
    /\ AppInit(FALSE)
    /\ ret = [op |-> "init", error |-> "none"]

NextCustom ==
    \/ /\ \E k \in Keys, v \in Values, c \in CustomCategories,
             picklable \in BOOLEAN : Set(k, v, c, picklable)
       /\ UNCHANGED <<vsVars, chunkVars, appVars>>
    \/ /\ \E k \in Keys, c \in CustomCategories : Get(k, c)
       /\ UNCHANGED <<vsVars, chunkVars, appVars>>
    \/ /\ \E c \in CustomCategories : ClearCategory(c)
       /\ UNCHANGED <<vsVars, chunkVars, appVars>>
    \/ /\ ClearExpired
       /\ UNCHANGED <<vsVars, chunkVars, appVars>>
    \/ /\ Tick
       /\ UNCHANGED <<vsVars, chunkVars, appVars>>

SpecCustom == InitCustom /\ [][NextCustom]_vars

(* chunk_by_tokens, called once on a text by a chunker with                 *)
(* 0 <= chunk_overlap < chunk_size.                                         *)

RECURSIVE SeqsOfLen(_, _)
SeqsOfLen(S, n) ==
    IF n = 0 THEN {<<>>}
    ELSE {Append(t, c) : t \in SeqsOfLen(S, n - 1), c \in S}

\* short texts over letters, periods and whitespace; longer ones over letters
\* and periods
Texts ==
    UNION ({SeqsOfLen({"a", ".", " ", "\n"}, n) : n \in 0 .. MaxShortLen}
           \cup {SeqsOfLen({"a", "."}, n) : n \in (MaxShortLen + 1) .. MaxTextLen})

InitChunk ==
    /\ VsInit
    /\ CacheInit(MaxTtl)
    /\ \E size \in 1 .. MaxChunkSize : \E overlap \in 0 .. (size - 1) :
           /\ chunk_size = size
           /\ chunk_overlap = overlap
    /\ ck_text \in Texts
    /\ ck_start = 0
    /\ ck_chunks = <<>>
    /\ ck_windows = <<>>
    /\ ck_pc = "call"
    /\ AppInit(FALSE)
    /\ ret = [op |-> "init", error |-> "none"]

NextChunk ==
    \/ /\ ChunkByTokensEnter
       /\ UNCHANGED <<vsVars, cacheVars, appVars>>
    \/ /\ ChunkByTokensIterate
       /\ UNCHANGED <<vsVars, cacheVars, appVars>>
    \/ /\ ChunkByTokensReturn
       /\ UNCHANGED <<vsVars, cacheVars, appVars>>

SpecChunk == InitChunk /\ [][NextChunk]_vars

\* texts of 1 .. n paragraphs of one or two letters, with blank-line separators
Paragraphs == {<<"a">>, <<"b", "b">>}
BlankLines == {<<"\n", "\n">>, <<"\n", " ", "\n">>}
RECURSIVE ParagraphTexts(_)
ParagraphTexts(n) ==
    IF n = 1 THEN Paragraphs
    ELSE ParagraphTexts(n - 1) \cup
         {t \o sep \o para : t \in ParagraphTexts(n - 1), sep \in BlankLines,
                             para \in Paragraphs}

\* chunk_document with each strategy, on short texts over letters, periods
\* and whitespace and on texts of several paragraphs
DocumentTexts ==
    UNION {SeqsOfLen({"a", ".", " ", "\n"}, n) : n \in 0 .. MaxShortLen}
        \cup ParagraphTexts(MaxParagraphs)

InitDocument ==
    /\ VsInit
    /\ CacheInit(MaxTtl)
    /\ \E size \in 1 .. MaxShortLen : \E overlap \in {0, size - 1} :
           /\ chunk_size = size
           /\ chunk_overlap = overlap
    /\ ck_text \in DocumentTexts
    /\ ck_start = 0
    /\ ck_chunks = <<>>
    /\ ck_windows = <<>>
    /\ ck_pc = "call"
    /\ AppInit(FALSE)
    /\ ret = [op |-> "init", error |-> "none"]

NextDocument ==
    \/ /\ ChunkByTokensEnter
       /\ UNCHANGED <<vsVars, cacheVars, appVars>>
    \/ /\ ChunkByTokensIterate
       /\ UNCHANGED <<vsVars, cacheVars, appVars>>
    \/ /\ ChunkByTokensReturn
       /\ UNCHANGED <<vsVars, cacheVars, appVars>>
    \/ /\ ChunkByParagraphs
       /\ UNCHANGED <<vsVars, cacheVars, appVars>>
    \/ /\ ChunkBySentences
       /\ UNCHANGED <<vsVars, cacheVars, appVars>>
    \/ /\ ChunkDocumentReturn
       /\ UNCHANGED <<vsVars, cacheVars, appVars>>

SpecDocument == InitDocument /\ [][NextDocument]_vars

(* DocuMind.process_pdf: ingestion, time passing between the steps. *)
InitApp ==
    /\ VsInit
    /\ \E limit \in 0 .. MaxTtl : CacheInit(limit)
    /\ ChunkerInit(1, 0)
    /\ \E caching \in BOOLEAN : AppInit(caching)
    /\ ret = [op |-> "init", error |-> "none"]

NextIngest ==
    \/ \E path \in FilePaths, extracted \in {None} \cup {Some(t) : t \in DocTexts} :
           ProcessPdfStart(path, extracted)
    \/ \E embed_ok \in BOOLEAN, io_ok \in BOOLEAN : ProcessChunk(embed_ok, io_ok)
    \/ ProcessPdfReturn
    \/ ClearCache
    \/ /\ ClearStore
       /\ UNCHANGED <<cacheVars, chunkVars, appVars>>
    \/ /\ Tick
       /\ UNCHANGED <<vsVars, chunkVars, appVars>>

SpecIngest == InitApp /\ [][NextIngest]_vars

(* process_pdf run again after a failure, on a store with room for the     *)
(* entries that the failed run left behind.                                *)
ReingestTexts == {<<"a", "\n", "\n", "b">>}

NextReingest ==
    \/ \E path \in FilePaths, extracted \in {None} \cup {Some(t) : t \in ReingestTexts} :
           ProcessPdfStartWithin(path, extracted, MaxDocs + 1)
    \/ \E embed_ok \in BOOLEAN, io_ok \in BOOLEAN : ProcessChunk(embed_ok, io_ok)
    \/ ProcessPdfReturn
    \/ ClearCache
    \/ /\ ClearStore
       /\ UNCHANGED <<cacheVars, chunkVars, appVars>>
    \/ /\ Tick
       /\ UNCHANGED <<vsVars, chunkVars, appVars>>

SpecReingest == InitApp /\ [][NextReingest]_vars

(* DocuMind.query on a store filled by process_pdf. *)
InitAsk ==
    /\ VsInit
    /\ CacheInit(MaxTtl)
    /\ ChunkerInit(1, 0)
    /\ \E caching \in BOOLEAN : AppInit(caching)
    /\ ret = [op |-> "init", error |-> "none"]

NextAsk ==
    \/ \E path \in FilePaths, extracted \in {None} \cup {Some(t) : t \in AskTexts} :
           ProcessPdfStart(path, extracted)
    \/ \E embed_ok \in BOOLEAN, io_ok \in BOOLEAN : ProcessChunk(embed_ok, io_ok)
    \/ ProcessPdfReturn
    \/ \E q \in Questions, k \in {1, MaxDocs}, embed_ok \in BOOLEAN,
          answer \in {None} \cup {Some(a) : a \in Answers}, io_ok \in BOOLEAN :
           Query(q, k, embed_ok, answer, io_ok)
    \/ ClearCache
    \/ /\ ClearStore
       /\ UNCHANGED <<cacheVars, chunkVars, appVars>>
    \/ /\ Tick
       /\ UNCHANGED <<vsVars, chunkVars, appVars>>

SpecAsk == InitAsk /\ [][NextAsk]_vars

----------------------------------------------------------------------------
(* Properties of the vector store (Spec). *)

\* the stored positions whose similarity to q passes the threshold
Qualifying(q, th) ==
    {i \in 1 .. Len(documents) :
        SimGE(cosine_similarity(q, documents[i].embedding), ThresholdKey(th))}

\* the reference order: higher similarity first, ties in insertion order
RanksBefore(q, i, j) ==
    LET si == cosine_similarity(q, documents[i].embedding)
        sj == cosine_similarity(q, documents[j].embedding)
    IN  SimGT(si, sj) \/ (SimEQ(si, sj) /\ i < j)

\* C1: search returns the reference result: the entries whose similarity is
\* >= threshold, by similarity descending with ties in insertion order, cut
\* to the first top_k; the empty sequence, without error, on an empty index.
C1_SearchIsReference ==
    ret.op = "search" =>
        LET r == ret.result
            q == ret.query_embedding
            Q == Qualifying(q, ret.threshold)
            P == {r[j].pos : j \in 1 .. Len(r)}
        IN  /\ ret.error = "none"
            /\ Len(r) = Min(ret.top_k, Cardinality(Q))
            /\ \A j \in 1 .. Len(r) :
                   /\ r[j].pos \in Q
                   /\ r[j].id = documents[r[j].pos].id
                   /\ SimEQ(r[j].score,
                            cosine_similarity(q, documents[r[j].pos].embedding))
            /\ \A j, k \in 1 .. Len(r) :
                   j < k => RanksBefore(q, r[j].pos, r[k].pos)
            /\ \A i \in Q \ P : \A j \in 1 .. Len(r) :
                   RanksBefore(q, r[j].pos, i)
            /\ (documents = <<>> => r = <<>>)

\* a search cut by top_k between two entries of equal similarity
C1_Witness ==
    /\ ret.op = "search"
    /\ Len(ret.result) = 1
    /\ \E i \in Qualifying(ret.query_embedding, ret.threshold) :
           /\ i # ret.result[1].pos
           /\ SimEQ(ret.result[1].score,
                    cosine_similarity(ret.query_embedding, documents[i].embedding))

\* every stored embedding has the store's dimension
EmbeddingsHaveDimension ==
    \A i \in 1 .. Len(documents) : Len(documents[i].embedding) = dimension

\* an add_document whose embedding has another length raises and changes nothing
WrongDimensionStep ==
    (ret'.op = "add_document" /\ Len(ret'.embedding) # dimension) =>
        (ret'.error = "ValueError" /\ UNCHANGED vsVars)

\* C2: add_document with an embedding of the wrong length fails and leaves
\* the store unchanged, so every stored embedding has the store's dimension.
C2_DimensionEnforced == [](EmbeddingsHaveDimension) /\ [][WrongDimensionStep]_vars

\* a rejected add_document on a store that holds entries
C2_Witness ==
    /\ ret.op = "add_document"
    /\ ret.error = "ValueError"
    /\ Len(documents) > 0

(* Properties of the context assembly (SpecQuery). *)

\* C10: the assembled context, separators included, is at most
\* max_context_length characters long.
C10_ContextWithinBudget ==
    ret.op = "get_context" => Len(ret.result.context) <= ret.max_context_length

----------------------------------------------------------------------------
(* Properties of the cache manager (SpecCache). *)

\* C3: for an entry of a fixed category whose latest set completed at time
\* t and which was not cleared since, get returns the value of that set while
\* now - t <= ttl, and the miss once now - t > ttl (until the next set).
C3_GetFollowsLatestSet ==
    (/\ ret.op = "get"
     /\ ret.category \in FixedCategories
     /\ last_set[get_cache_path(ret.key, ret.category)].state = "stored") =>
        LET h == last_set[get_cache_path(ret.key, ret.category)]
        IN  /\ ret.error = "none"
            /\ (now - h.at <= ttl => ret.result = h.value)
            /\ (now - h.at > ttl => ret.result = None)

\* a get that misses because the entry, still in storage, is older than ttl
C3_Witness ==
    /\ ret.op = "get"
    /\ ret.category \in FixedCategories
    /\ get_cache_path(ret.key, ret.category) \in DOMAIN cache_files
    /\ last_set[get_cache_path(ret.key, ret.category)].state = "stored"
    /\ now - last_set[get_cache_path(ret.key, ret.category)].at > ttl
    /\ ret.result = None

\* C4: get never raises: whatever the backing entry is (missing, expired,
\* empty, truncated, malformed), it returns the value or the miss.
C4_GetNeverRaises == ret.op = "get" => ret.error = "none"

\* C5: set of a serializable value succeeds for every category, also for a
\* category never used before and for the default category.
C5_SetSucceedsInEveryCategory ==
    (ret.op = "set" /\ ret.picklable) => ret.error = "none"

----------------------------------------------------------------------------
(* Properties of chunk_by_tokens (SpecChunk). *)

\* the window start is larger after an iteration than before it
StartIncreases ==
    (ck_pc = "loop" /\ ck_windows' # ck_windows) => ck_start' > ck_start

\* C8: chunk_by_tokens terminates whenever 0 <= chunk_overlap < chunk_size:
\* the window start strictly increases on each iteration.
C8_StartStrictlyIncreases == [][StartIncreases]_vars

\* the 0-based positions of the text that the chunks were cut from
ChunkedPositions ==
    UNION {SlicePositions(Len(ck_text), ck_windows[i][1], ck_windows[i][2]) :
              i \in 1 .. Len(ck_windows)}

\* C9: when chunk_by_tokens returns for a non-empty text, every
\* non-whitespace character of the text is in at least one output chunk.
C9_ChunksCoverText ==
    (ck_pc = "done" /\ ck_text # <<>>) =>
        \A p \in 0 .. (Len(ck_text) - 1) :
            ~IsSpace(ck_text[p + 1]) => p \in ChunkedPositions

----------------------------------------------------------------------------
(* Properties of DocuMind.query (SpecAsk) and of ingestion (SpecIngest). *)

Range(s) == {s[i] : i \in DOMAIN s}

\* a well-formed entry is stored at the path and is not older than ttl
HoldsEntry(path) ==
    /\ path \in DOMAIN cache_files
    /\ cache_files[path].kind = "pickle"
    /\ now - cache_files[path].mtime <= ttl

\* nothing is stored at the path, or what is stored is older than ttl
MissesEntry(path) ==
    \/ path \notin DOMAIN cache_files
    \/ now - cache_files[path].mtime > ttl

QueryEntry(question) == <<"queries", <<"sha256", question>>>>
EmbeddingEntry(text) == <<"embeddings", <<"sha256", text>>>>

\* a step that is a call of query for a question with an unexpired entry
\* returns the entry's value, calls no collaborator and changes nothing
CachedQueryStep ==
    (/\ use_cache
     /\ ret'.op = "query"
     /\ HoldsEntry(QueryEntry(ret'.question))) =>
        /\ ret'.result = cache_files[QueryEntry(ret'.question)].value.value
        /\ Range(ret'.calls) \cap
               {"embed_query", "search", "generate", "cache_set"} = {}
        /\ cache_files' = cache_files
        /\ UNCHANGED <<vsVars, cache_dirs>>

\* C6: with caching enabled, query for a question text that has an unexpired
\* entry in the queries category returns that cached result, invokes neither
\* the embedding generator nor the search nor the answer generator, and
\* writes nothing to the cache.
C6_CachedQueryShortCircuits == [][CachedQueryStep]_vars

\* a query answered from the cache while the store holds a document: the
\* result is a success record and the only call is the cache lookup
C6_Witness ==
    /\ use_cache
    /\ ret.op = "query"
    /\ ret.calls = <<"cache_get">>
    /\ "status" \in DOMAIN ret.result
    /\ HoldsEntry(QueryEntry(ret.question))
    /\ ret.result = cache_files[QueryEntry(ret.question)].value.value
    /\ documents # <<>>

\* a step that handles one chunk of process_pdf, with caching enabled
ChunkStep == use_cache /\ app_pc = "ingest" /\ ret'.op = "process_chunk"

\* the generator is called exactly on a miss; a miss that completes stores
\* the inserted embedding under the text; a hit inserts the stored embedding
\* and leaves the cache alone
ChunkStepUsesCache ==
    ChunkStep =>
        LET entry == EmbeddingEntry(ret'.text)
            generated == "embed_text" \in Range(ret'.calls)
        IN  /\ generated <=> MissesEntry(entry)
            /\ (MissesEntry(entry) /\ ret'.result = None) =>
                   /\ Len(documents') = Len(documents) + 1
                   /\ entry \in DOMAIN cache_files'
                   /\ cache_files'[entry].kind = "pickle"
                   /\ cache_files'[entry].value =
                          Some(documents'[Len(documents')].embedding)
                   /\ cache_files'[entry].mtime = now
            /\ HoldsEntry(entry) =>
                   /\ ret'.result = None
                   /\ documents' =
                          Append(documents,
                                 [id |-> doc_id_of(file_path, chunk_i),
                                  content |-> ret'.text,
                                  embedding |-> cache_files[entry].value.value])
                   /\ cache_files' = cache_files

\* an unexpired embeddings entry stays as it is, whatever step is taken
EmbeddingEntriesStay ==
    \A path \in DOMAIN cache_files :
        (path[1] = "embeddings" /\ HoldsEntry(path)) =>
            (path \in DOMAIN cache_files' /\ cache_files'[path] = cache_files[path])

\* C7: during process_pdf with caching enabled the embedding generator is
\* called for a chunk iff the embeddings cache misses for the chunk's text;
\* after a miss the embedding is stored under that text, and a chunk with the
\* same text handled while the entry is unexpired is inserted with the stored
\* embedding, without a generator call.
C7_GeneratorCalledOnMissOnly ==
    [][ChunkStepUsesCache /\ EmbeddingEntriesStay]_vars

\* the second chunk of one ingestion has the text of the first and is
\* inserted from the cache: one lookup, no generator call
C7_Witness ==
    /\ use_cache
    /\ app_pc = "ingest"
    /\ chunk_i = 2
    /\ ret.op = "process_chunk"
    /\ ret.calls = <<"cache_get", "add_document">>
    /\ Len(documents) >= 2
    /\ documents[Len(documents)].content = documents[Len(documents) - 1].content
    /\ documents[Len(documents)].embedding =
           cache_files[EmbeddingEntry(ret.text)].value.value

----------------------------------------------------------------------------
(* Properties of the failures of process_pdf and query (SpecAsk). *)

\* the steps in which process_pdf or query run a try block to its end
IsAppCall(r) == r.op \in {"process_pdf", "process_chunk", "query"}
ContextOf(r) == IF r.op = "query" THEN "query" ELSE "process_pdf"

\* no collaborator is called twice in one step
NoRetry(calls) == \A i, j \in DOMAIN calls : calls[i] = calls[j] => i = j

\* C11: process_pdf and query never raise and never retry: when a
\* collaborator (extractor, embedding generator, index, cache, answer
\* generator) fails, the call returns a failure record whose context names
\* the operation and which carries the type and the message of the cause, and
\* never a record with status 'success'.
C11_FailuresBecomeRecords ==
    IsAppCall(ret) =>
        /\ ~ret.raised
        /\ NoRetry(ret.calls)
        /\ ret.failure.some =>
               /\ DOMAIN ret.result = {"error_type", "error_message", "context"}
               /\ ret.result.error_type = ret.failure.value.type
               /\ ret.result.error_message = ret.failure.value.message
               /\ ret.result.context = ContextOf(ret)

\* the answer generator fails in a query that missed the cache and searched
\* a store that holds a document
C11_Witness ==
    /\ ret.op = "query"
    /\ ret.failure = Some(GenerateError)
    /\ ret.calls = <<"cache_get", "embed_query", "search", "generate">>
    /\ ret.result.context = "query"
    /\ documents # <<>>

----------------------------------------------------------------------------
(* Properties of the entries of the vector store (SpecStore). *)

\* the positions of the entries of the store that have the id
PositionsOf(doc_id) == {i \in 1 .. Len(documents) : documents[i].id = doc_id}

SetMin(S) == CHOOSE x \in S : \A y \in S : x <= y

\* a delete step removes the first entry that has the id and keeps the others
\* in their order, or finds none and changes nothing
DeleteStep ==
    ret'.op = "delete" =>
        IF PositionsOf(ret'.doc_id) # {}
        THEN LET k == SetMin(PositionsOf(ret'.doc_id))
             IN  /\ ret'.result = TRUE
                 /\ Len(documents') = Len(documents) - 1
                 /\ \A i \in 1 .. Len(documents') :
                        documents'[i] = documents[IF i < k THEN i ELSE i + 1]
        ELSE /\ ret'.result = FALSE
             /\ UNCHANGED vsVars

InsertStep ==
    (ret'.op = "add_document" /\ ret'.error = "none") =>
        /\ Len(documents') = Len(documents) + 1
        /\ SubSeq(documents', 1, Len(documents)) = documents

\* get_by_id returned the first entry that has the id, or None without one
LookupIsFirstMatch ==
    ret.op = "get_by_id" =>
        IF PositionsOf(ret.doc_id) = {} THEN ret.result = None
        ELSE ret.result = Some(documents[SetMin(PositionsOf(ret.doc_id))])

\* C13: an insert with an id that is present adds a new entry and replaces
\* nothing, and get_by_id(id) returns the earliest-inserted entry still
\* present with that id, or absent when there is none.
C13_DuplicateIdsCoexist == [](LookupIsFirstMatch) /\ [][InsertStep]_vars

\* a lookup of an id that two different entries have
C13_Witness ==
    /\ ret.op = "get_by_id"
    /\ Cardinality(PositionsOf(ret.doc_id)) >= 2
    /\ ret.result = Some(documents[1])
    /\ documents[2] # documents[1]
    /\ documents[2].id = documents[1].id

----------------------------------------------------------------------------
(* Properties of the categories of the cache (SpecCache, SpecCustom). *)

\* the paths of both states that are not of the category
OtherPaths(category) ==
    {p \in (DOMAIN cache_files) \cup (DOMAIN cache_files') : p[1] # category}

\* a set or a clear_category of a category leaves the files of the other
\* categories, what get returns for them and their number as they were; a
\* clear_category removes every file of its category and returns their number
CategoryStep ==
    ret'.op \in {"set", "clear_category"} =>
        /\ \A p \in OtherPaths(ret'.category) :
               /\ p \in DOMAIN cache_files
               /\ p \in DOMAIN cache_files'
               /\ cache_files'[p] = cache_files[p]
        /\ \A k \in Keys, c \in Categories \ {ret'.category} :
               /\ GetOutcome(cache_files', ttl', k, c, now') =
                      GetOutcome(cache_files, ttl, k, c, now)
               /\ Cardinality({p \in DOMAIN cache_files' : p[1] = c}) =
                      Cardinality({p \in DOMAIN cache_files : p[1] = c})
        /\ ret'.op = "clear_category" =>
               /\ {p \in DOMAIN cache_files' : p[1] = ret'.category} = {}
               /\ ret'.result =
                      Cardinality({p \in DOMAIN cache_files :
                                      p[1] = ret'.category})

\* C14: categories are isolated: clear_category(c) deletes every entry of c
\* and returns their number, and neither it nor set(k, v, c) changes an entry
\* of another category, also when the same key is in both.
C14_CategoriesAreIsolated == [][CategoryStep]_vars

\* a clear_category that removed an entry while the same key stays in
\* another category
C14_Witness ==
    /\ ret.op = "clear_category"
    /\ ret.result >= 1
    /\ \E k \in Keys, c \in Categories :
           c # ret.category /\ <<c, k>> \in DOMAIN cache_files

\* the files of the fixed categories that are older than ttl
OldFixed ==
    {p \in DOMAIN cache_files :
        p[1] \in {"embeddings", "queries", "responses"} /\
        now - cache_files[p].mtime > ttl}

\* a clear_expired removes the old files of the fixed categories, returns
\* their number and leaves the other files as they were, so that get returns
\* for them what it returned before
ClearExpiredStep ==
    ret'.op = "clear_expired" =>
        /\ DOMAIN cache_files' = (DOMAIN cache_files) \ OldFixed
        /\ ret'.result = Cardinality(OldFixed)
        /\ \A p \in DOMAIN cache_files' :
               /\ cache_files'[p] = cache_files[p]
               /\ GetOutcome(cache_files', ttl', p[2], p[1], now') =
                      GetOutcome(cache_files, ttl, p[2], p[1], now)

----------------------------------------------------------------------------
(* Properties of _generate_key (SpecKey). *)

\* the logical content of an argument: a dict is the set of its pairs
RECURSIVE ContentOf(_)
ContentOf(data) ==
    IF data.t = "int" THEN data
    ELSE IF data.t = "dict"
    THEN [t |-> "dict",
          pairset |-> {<<data.pairs[i][1], ContentOf(data.pairs[i][2])>> :
                          i \in DOMAIN data.pairs}]
    ELSE IF data.t = "list"
    THEN [t |-> "list",
          items |-> [i \in DOMAIN data.items |-> ContentOf(data.items[i])]]
    ELSE [t |-> "tuple",
          elems |-> [i \in DOMAIN data.elems |-> ContentOf(data.elems[i])]]

\* C16: generate_key is a function of the logical content of its argument:
\* arguments that differ only in the insertion order of the keys of their
\* mappings, nested ones included, have the same key.
C16_KeyIgnoresInsertionOrder ==
    ret.op = "generate_key" =>
        \A other \in KeyData :
            ContentOf(other) = ContentOf(ret.data) =>
                generate_key_of(other) = ret.result

----------------------------------------------------------------------------
(* Properties of chunk_by_tokens on short texts (SpecChunk). *)

\* C18: for a text no longer than chunk_size, chunk_by_tokens returns the
\* empty sequence when the text is empty or whitespace-only, and otherwise
\* exactly one chunk, the text with surrounding whitespace trimmed.
C18_ShortTextIsOneChunk ==
    (ck_pc = "done" /\ ret.op = "chunk_by_tokens"
         /\ Len(ck_text) <= chunk_size) =>
        ret.result = IF Strip(ck_text) = <<>> THEN <<>>
                     ELSE <<Strip(ck_text)>>

----------------------------------------------------------------------------
(* Properties of chunk_document (SpecDocument). *)

\* C17: chunk_document returns one record per piece produced by the selected
\* strategy, in the same order, with chunk_id the 0-based position and
\* chunk_count the number of records returned, in every record.
C17_RecordsNumberThePieces ==
    ret.op = "chunk_document" =>
        /\ ret.pieces = (CASE ret.strategy = "paragraphs" ->
                                  chunk_by_paragraphs(ck_text, chunk_size)
                           [] ret.strategy = "sentences" ->
                                  chunk_by_sentences(ck_text, chunk_size)
                           [] OTHER -> ck_chunks)
        /\ Len(ret.result) = Len(ret.pieces)
        /\ \A i \in 1 .. Len(ret.result) :
               /\ ret.result[i].text = ret.pieces[i]
               /\ ret.result[i].chunk_id = i - 1
               /\ ret.result[i].chunk_count = Len(ret.result)

\* chunk_document has wrapped at least two pieces of the sentence strategy
C17_Witness ==
    /\ ret.op = "chunk_document"
    /\ ret.strategy = "sentences"
    /\ Len(ret.result) >= 2

----------------------------------------------------------------------------
(* Properties of chunk_by_paragraphs and chunk_by_sentences (SpecDocument). *)

\* the units (paragraphs or sentences) packed in one output chunk
UnitsOf(op, chunk) ==
    IF op = "chunk_by_paragraphs" THEN SplitParagraphs(chunk, 1, 1)
    ELSE SplitSentences(chunk, 1, 1)

\* C19: in chunk_by_paragraphs and chunk_by_sentences every output chunk that
\* packs two or more units has total length, separators included, at most
\* chunk_size; only a chunk made of a single unit may be longer.
C19_PackedChunksFit ==
    ret.op \in {"chunk_by_paragraphs", "chunk_by_sentences"} =>
        \A i \in 1 .. Len(ret.result) :
            Len(UnitsOf(ret.op, ret.result[i])) >= 2 =>
                Len(ret.result[i]) <= chunk_size

\* the pieces of a split, trimmed, without the empty ones, in order
RECURSIVE TrimmedNonEmpty(_)
TrimmedNonEmpty(pieces) ==
    IF pieces = <<>> THEN <<>>
    ELSE (IF Strip(Head(pieces)) = <<>> THEN <<>> ELSE <<Strip(Head(pieces))>>)
         \o TrimmedNonEmpty(Tail(pieces))

\* the paragraphs of all the chunks, in order of output
RECURSIVE EmittedParagraphs(_)
EmittedParagraphs(chunks) ==
    IF chunks = <<>> THEN <<>>
    ELSE SplitParagraphs(Head(chunks), 1, 1) \o EmittedParagraphs(Tail(chunks))

\* C20: chunk_by_paragraphs emits every non-empty paragraph of the text
\* exactly once, whole and in source order: splitting the output chunks on
\* the blank-line separator gives back the trimmed non-empty paragraphs; and
\* a paragraph longer than chunk_size is a chunk by itself.
C20_ParagraphsEmittedOnceWhole ==
    ret.op = "chunk_by_paragraphs" =>
        /\ EmittedParagraphs(ret.result) =
               TrimmedNonEmpty(SplitParagraphs(ck_text, 1, 1))
        /\ \A i \in 1 .. Len(ret.result) :
               LET units == SplitParagraphs(ret.result[i], 1, 1)
               IN  (\E u \in 1 .. Len(units) : Len(units[u]) > chunk_size) =>
                       Len(units) = 1

\* a text of three paragraphs, the middle one longer than chunk_size, has
\* been chunked by paragraphs
C20_Witness ==
    /\ ret.op = "chunk_by_paragraphs"
    /\ Len(ret.result) = 3
    /\ Len(ret.result[2]) > chunk_size
    /\ Len(ret.result[1]) <= chunk_size

----------------------------------------------------------------------------
(* Properties of rerank_results (SpecRerank). *)

\* the words of a text: the lower-cased runs of non-whitespace characters
\* that whitespace or the ends of the text enclose
WordsOf(text) ==
    {Lower(SubSeq(text, run[1], run[2])) :
        run \in {r \in (1 .. Len(text)) \X (1 .. Len(text)) :
                    /\ r[1] <= r[2]
                    /\ \A m \in r[1] .. r[2] : ~IsSpace(text[m])
                    /\ (r[1] = 1 \/ IsSpace(text[r[1] - 1]))
                    /\ (r[2] = Len(text) \/ IsSpace(text[r[2] + 1]))}}

\* a result without its adjusted score
BaseOf(r) == [content |-> r.content, score |-> r.score, doc_id |-> r.doc_id]

\* the adjusted score of a result, in hundredths
Adjusted(query, r) == r.score + Cardinality(WordsOf(query) \cap WordsOf(r.content))

SortedByAdjusted(query, results) ==
    \A i, j \in DOMAIN results :
        i < j => Adjusted(query, results[i]) >= Adjusted(query, results[j])

\* C21: rerank_results gives each result the adjusted score score + 0.01 x
\* (number of distinct lower-cased words shared by query and content), returns
\* a permutation of its input sorted by adjusted score descending, and leaves
\* the order of a list that is already sorted by adjusted score unchanged.
C21_RerankSortsAndIsIdempotent ==
    ret.op = "rerank_results" =>
        /\ \A i \in DOMAIN ret.result :
               ret.result[i].rerank_score = Adjusted(ret.query, ret.result[i])
        /\ Len(ret.result) = Len(ret.input)
        /\ \A item \in ResultItems :
               Cardinality({i \in DOMAIN ret.input : BaseOf(ret.input[i]) = item})
                   = Cardinality({i \in DOMAIN ret.result :
                                      BaseOf(ret.result[i]) = item})
        /\ SortedByAdjusted(ret.query, ret.result)
        /\ SortedByAdjusted(ret.query, ret.input) =>
               \A i \in DOMAIN ret.input :
                   BaseOf(ret.result[i]) = BaseOf(ret.input[i])

\* a list already sorted by adjusted score, with two different results of
\* equal adjusted score, has been reranked again with the same query
C21_Witness ==
    /\ ret.op = "rerank_results"
    /\ Len(ret.input) = 2
    /\ "rerank_score" \in DOMAIN ret.input[1]
    /\ SortedByAdjusted(ret.query, ret.input)
    /\ Adjusted(ret.query, ret.input[1]) = Adjusted(ret.query, ret.input[2])
    /\ ret.input[1].score < ret.input[2].score
    /\ ret.input[1].rerank_score = Adjusted(ret.query, ret.input[1])

\* C25: two results of equal adjusted score are ordered by their original
\* similarity score, higher first, whatever their order in the input.
C25_TiesFallBackToScore ==
    ret.op = "rerank_results" =>
        \A i, j \in DOMAIN ret.result :
            (i < j /\ ret.result[i].rerank_score = ret.result[j].rerank_score) =>
                ret.result[i].score >= ret.result[j].score

----------------------------------------------------------------------------
(* Properties of the entries that process_pdf inserts (SpecIngest). *)

\* the entries that the running process_pdf has inserted so far are the last
\* chunk_i entries of the store: chunk k under the id '<file_path>_<k>'
IngestedSoFar ==
    app_pc = "ingest" =>
        /\ chunk_i <= Len(documents)
        /\ \A k \in 1 .. chunk_i :
               LET d == documents[Len(documents) - chunk_i + k]
               IN  /\ d.id = file_path \o "_" \o ToString(k - 1)
                   /\ d.content = pdf_chunks[k].text
                   /\ pdf_chunks[k].chunk_id = k - 1
        /\ \A k, l \in 1 .. chunk_i :
               documents[Len(documents) - chunk_i + k].id
                   = documents[Len(documents) - chunk_i + l].id => k = l

\* a step of process_pdf: the call starts with no chunk inserted, an
\* iteration appends one entry, and the success record counts the chunks of
\* the chunker, all of them inserted
IngestStep ==
    /\ (app_pc = "idle" /\ app_pc' = "ingest") =>
           documents' = documents /\ chunk_i' = 0
    /\ (app_pc = "ingest" /\ app_pc' = "ingest") =>
           \/ documents' = documents /\ chunk_i' = chunk_i
           \/ /\ chunk_i' = chunk_i + 1
              /\ Len(documents') = Len(documents) + 1
              /\ SubSeq(documents', 1, Len(documents)) = documents
    /\ (app_pc = "ingest" /\ ret'.op = "process_pdf") =>
           /\ documents' = documents
           /\ ~ret'.failure.some
           /\ ret'.result.status = "success"
           /\ ret'.result.chunks_processed = Len(pdf_chunks)
           /\ chunk_i = Len(pdf_chunks)

\* C22: a successful process_pdf inserts exactly one index entry per chunk,
\* in chunk order, under the id '<file_path>_<chunk_id>': the ids of one call
\* are pairwise distinct, the index grows by the returned chunks_processed,
\* and chunks_processed is the number of chunks of the chunker.
C22_OneEntryPerChunk == [](IngestedSoFar) /\ [][IngestStep]_vars

\* process_pdf has returned success for a document of two chunks
C22_Witness ==
    /\ ret.op = "process_pdf"
    /\ ~ret.failure.some
    /\ ret.result.chunks_processed = 2
    /\ Len(documents) = 2
    /\ documents[1].id = "f1_0"
    /\ documents[2].id = "f1_1"

----------------------------------------------------------------------------
(* Properties of a get that runs concurrently with writers (SpecRace). *)

\* a step in which the get under way returns or raises: it does not raise,
\* what it returns is a miss or a value that a set wrote, and the entry it
\* loads is a whole one
ConcurrentGetStep ==
    (get_call.pc # "idle" /\ ret'.op = "get") =>
        /\ ret'.error = "none"
        /\ ret'.result = None \/ ret'.result \in {Some(v) : v \in Values}
        /\ get_call.pc = "load" => FileOfGet.kind = "pickle"

\* C23: a get that runs concurrently with a set, a clear_category or a
\* clear_expired touching the same entry returns the previously stored
\* value, the newly written value or a miss: it never raises and never
\* observes a partially written (truncated or empty) entry.
C23_ConcurrentGetIsAtomic == [][ConcurrentGetStep]_vars

----------------------------------------------------------------------------
(* Properties of the context assembly: the prefix taken (SpecContext). *)

\* the cumulative content length of the first n results
RECURSIVE PrefixLength(_, _)
PrefixLength(results, n) ==
    IF n = 0 THEN 0 ELSE PrefixLength(results, n - 1) + Len(results[n].content)

\* C24: the contents in the context are exactly the longest prefix of the
\* ranked results whose cumulative content length stays within
\* max_context_length: the first result that does not fit is left out and no
\* later one is included; num_sources is the number of included results and
\* sources lists every retrieved result.
C24_ContextIsLongestPrefix ==
    ret.op = "get_context" =>
        LET results == ret.result.sources
            n == ret.result.num_sources
        IN  /\ results = SearchResult(documents, embed_query(ret.result.query),
                                      ret.top_k, DefaultThreshold)
            /\ n \in 0 .. Len(results)
            /\ ret.result.context =
                   JoinParts([i \in 1 .. n |-> results[i].content])
            /\ PrefixLength(results, n) <= ret.max_context_length
            /\ n < Len(results) =>
                   PrefixLength(results, n + 1) > ret.max_context_length

\* the first result did not fit and the second one, which would have fit, was
\* left out as well
C24_Witness ==
    /\ ret.op = "get_context"
    /\ Len(ret.result.sources) = 2
    /\ ret.result.num_sources = 0
    /\ ret.result.context = <<>>
    /\ Len(ret.result.sources[1].content) > ret.max_context_length
    /\ Len(ret.result.sources[2].content) <= ret.max_context_length

----------------------------------------------------------------------------
(* Properties of the steps of the query path (SpecAsk). *)

\* C26: on a cache miss the query path runs embed query -> index search ->
\* rerank -> context assembly: the lexical re-rank is applied right after the
\* index search, before the context is assembled and the answer generated.
C26_RerankFollowsSearch ==
    ret.op = "query" =>
        \A i \in DOMAIN ret.calls :
            ret.calls[i] = "search" =>
                /\ i > 1 /\ ret.calls[i - 1] = "embed_query"
                /\ i < Len(ret.calls) /\ ret.calls[i + 1] = "rerank"

----------------------------------------------------------------------------
(* Properties of the position-to-id mapping of the vector store (SpecStore). *)

\* C27: in every reachable state of the VectorStore (after any sequence of
\* add_document, failed add_document, delete and clear) the keys of
\* index_to_id are exactly 0..size-1 and index_to_id[i] is the id of the
\* i-th stored entry.
C27_IndexAgreesWithEntries ==
    /\ DOMAIN index_to_id = 0 .. (Len(documents) - 1)
    /\ \A i \in DOMAIN index_to_id : index_to_id[i] = documents[i + 1].id

\* a delete has removed an entry in front of the one that is left
C27_Witness ==
    /\ ret.op = "delete"
    /\ ret.result
    /\ ret.doc_id = "a"
    /\ Len(documents) = 1
    /\ documents[1].id = "b"
    /\ index_to_id[0] = "b"

----------------------------------------------------------------------------
(* Properties of the reads of the cache (SpecCache). *)

\* the entries of a category, and the ones among them older than ttl
EntriesIn(category) == {p \in DOMAIN cache_files : p[1] = category}
StaleIn(category) ==
    {p \in EntriesIn(category) : now - cache_files[p].mtime > ttl}

\* a step of the cache: get and get_stats leave the files as they are,
\* get_stats counts every entry in total and every expired one in expired,
\* and only a clear removes an entry
ReadStep ==
    /\ ret'.op \in {"get", "get_stats"} => cache_files' = cache_files
    /\ ret'.op = "get_stats" =>
           \A c \in FixedCategories :
               /\ ret'.result[c].total = Cardinality(EntriesIn(c))
               /\ ret'.result[c].expired = Cardinality(StaleIn(c))
               /\ 0 <= ret'.result[c].expired
               /\ ret'.result[c].expired <= ret'.result[c].total
    /\ ret'.op \notin {"clear_category", "clear_expired"} =>
           \A p \in DOMAIN cache_files :
               /\ p \in DOMAIN cache_files'
               /\ (ret'.op # "set" \/ get_cache_path(ret'.key, ret'.category) # p)
                      => cache_files'[p] = cache_files[p]

\* C28: get and get_stats never modify the cache store: an expired entry
\* stays in storage after a get that reports a miss and keeps being counted
\* by get_stats in total and in expired (0 <= expired <= total) until
\* clear_expired, clear_category or a new set on that key; no entry is ever
\* removed without an explicit clear call.
C28_ReadsLeaveTheStore == [][ReadStep]_vars

\* a get has reported a miss for an expired entry, which is still stored
C28_Witness ==
    /\ ret.op = "get"
    /\ ret.error = "none"
    /\ ret.result = None
    /\ get_cache_path(ret.key, ret.category) \in DOMAIN cache_files
    /\ cache_files[get_cache_path(ret.key, ret.category)].kind = "pickle"
    /\ now - cache_files[get_cache_path(ret.key, ret.category)].mtime > ttl

----------------------------------------------------------------------------
(* Properties of the cached results of DocuMind.query (SpecAsk). *)

\* while the entry of a question is not expired, every step (ingestion,
\* removal of documents, queries with any top_k, clear_cache, time passing)
\* leaves it as it is, and a query with that text returns its value
CachedResultStep ==
    \A q \in Questions :
        (use_cache /\ HoldsEntry(QueryEntry(q))) =>
            /\ QueryEntry(q) \in DOMAIN cache_files'
            /\ cache_files'[QueryEntry(q)] = cache_files[QueryEntry(q)]
            /\ (ret'.op = "query" /\ ret'.question = q) =>
                   /\ ~ret'.failure.some
                   /\ ret'.result = cache_files[QueryEntry(q)].value.value

\* C29: with caching enabled, the result cached for a question text is
\* returned unchanged by every later query with the same text until the entry
\* expires, whatever top_k is passed and whatever documents were ingested
\* into or removed from the vector index in between.
C29_CachedResultOutlivesIngestion == [][CachedResultStep]_vars

\* a query has returned the result cached while the store was empty, with no
\* source, although the store now holds a chunk that matches the question
C29_Witness ==
    /\ use_cache
    /\ ret.op = "query"
    /\ ret.calls = <<"cache_get">>
    /\ ~ret.failure.some
    /\ ret.result.num_sources = 0
    /\ ContextData(documents, ret.question, ret.top_k,
                   DefaultMaxContextLength).num_sources > 0

----------------------------------------------------------------------------
(* Properties of a failed process_pdf and of its re-run (SpecReingest). *)

\* an iteration of process_pdf's loop fails: the entries inserted for the
\* chunks before it stay in the store, the cached embeddings stay in the
\* cache, and the call ends with an error record
FailedChunkStep ==
    (app_pc = "ingest" /\ ret'.op = "process_chunk" /\ ret'.failure.some) =>
        /\ UNCHANGED vsVars
        /\ chunk_i <= Len(documents')
        /\ \A k \in 1 .. chunk_i :
               LET d == documents'[Len(documents') - chunk_i + k]
               IN  /\ d.id = file_path \o "_" \o ToString(k - 1)
                   /\ d.content = pdf_chunks[k].text
        /\ use_cache =>
               \A k \in 1 .. chunk_i :
                   /\ EmbeddingEntry(pdf_chunks[k].text) \in DOMAIN cache_files'
                   /\ cache_files'[EmbeddingEntry(pdf_chunks[k].text)].kind = "pickle"
        /\ \A p \in DOMAIN cache_files :
               /\ p \in DOMAIN cache_files'
               /\ p # EmbeddingEntry(pdf_chunks[chunk_i + 1].text) =>
                      cache_files'[p] = cache_files[p]
        /\ ~ret'.raised
        /\ ret'.result = [error_type |-> ret'.failure.value.type,
                          error_message |-> ret'.failure.value.message,
                          context |-> "process_pdf"]
        /\ app_pc' = "idle"

\* an iteration that succeeds appends its entry, whether or not an entry with
\* the same id is stored already
InsertedChunkStep ==
    (app_pc = "ingest" /\ ret'.op = "process_chunk" /\ ~ret'.failure.some) =>
        /\ Len(documents') = Len(documents) + 1
        /\ SubSeq(documents', 1, Len(documents)) = documents
        /\ documents'[Len(documents')].id =
               file_path \o "_" \o ToString(chunk_i)

====
